---- MODULE Spec2Model ----
(***************************************************************************)
(* Session-key manager of jwk-auth (package manager): the consolidated     *)
(* keyset store, the three LRU+TTL cache indices, the legacy maps and the  *)
(* operations CreateSessionKey, DeleteSessionKey, GetSessionKeys,          *)
(* GetPrivateKeyByID, LoadUserKeysFromDB and CleanupExpiredCache.          *)
(*                                                                         *)
(* Spec     runs the operations one call at a time (each action is one     *)
(*          whole call).                                                   *)
(* SpecConc runs the calls of two goroutines interleaved at the points     *)
(*          where the code touches the store or the shared indices.        *)
(* SpecAuth runs the calls of the auth service (token pairs, verification, *)
(*          refresh) among the manager's calls that change the store.      *)
(*                                                                         *)
(* Strings are sequences of tokens, so that the "%s-%d-%d" key id and the  *)
(* "user:%d" cache key are built the way fmt.Sprintf builds them.          *)
(* Time is counted in ticks; a CreateSessionKey call takes one tick.       *)
(***************************************************************************)
EXTENDS Integers, Sequences, FiniteSets, TLC

\* ---------------------------------------------------------------- bounds
Users == {1, 2}
Devices == {<<"web">>, <<"android">>}
Procs == {1, 2}

MaxTime == 2

\* SpecConc: the number of calls the goroutines start
MaxCalls == 3

\* NewOptimizedKeyCache(1000, 500, 2000, 30*time.Minute), scaled down
KeyCapacity == 2
KeysetCapacity == 1
LookupCapacity == 2
CacheTTL == 1

\* the lifetimes of access tokens (15 minutes) and refresh tokens (7 days), scaled down
AccessTokenDuration == 1
RefreshTokenDuration == 2

\* ---------------------------------------------------------------- helpers
EmptyMap == [x \in {} |-> x]

MapPut(m, k, v) == [x \in (DOMAIN m) \cup {k} |-> IF x = k THEN v ELSE m[x]]

MapDelete(m, k) == [x \in (DOMAIN m) \ {k} |-> m[x]]

RemoveAt(s, i) == SubSeq(s, 1, i - 1) \o SubSeq(s, i + 1, Len(s))

\* ---------------------------------------------------------------- codecs
\* keyID := fmt.Sprintf("%s-%d-%d", deviceType, userID, time.Now().UnixNano())
KeyIDFormat(deviceType, userID, nanos) == deviceType \o <<"-", userID, "-", nanos>>

\* fmt.Sprintf("user:%d", userID)
formatUserKeysetKey(userID) == <<"user:", userID>>

\* a jwk.Key object: its kid attribute and its RSA material
NewKey(keyID, material) == [kid |-> keyID, material |-> material]

\* json.Marshal(key): the JWK document, member by member
MarshalKey(key) == <<"kid", key.kid, "d", key.material>>

\* jwk.ParseKey(data): fails on anything that is not a JWK document
ParseKey(data) ==
    IF Len(data) = 4 /\ data[1] = "kid" /\ data[3] = "d"
    THEN [ok |-> TRUE, key |-> NewKey(data[2], data[4])]
    ELSE [ok |-> FALSE, key |-> NewKey(<<>>, 0)]

\* json.Marshal(keyset.KeyData): the JSON object as its set of members
MarshalKeyData(keyData) == {<<d, keyData[d]>> : d \in DOMAIN keyData}

\* json.Unmarshal(keyDataJSON, &uk.KeyData)
UnmarshalKeyData(row) ==
    [d \in {m[1] : m \in row} |-> (CHOOSE m \in row : m[1] = d)[2]]

\* ---------------------------------------------------------------- UserKeyset
NewUserKeyset(userID) == [UserID |-> userID, KeyData |-> EmptyMap]

HasDeviceKey(uk, deviceType) == deviceType \in DOMAIN uk.KeyData

GetDeviceKey(uk, deviceType) ==
    IF deviceType \in DOMAIN uk.KeyData
    THEN ParseKey(uk.KeyData[deviceType])
    ELSE [ok |-> FALSE, key |-> NewKey(<<>>, 0)]

\* a keyset that files a key under the key's own id, not under its device type
SetDeviceKeyByKeyID(uk, deviceType, key) ==
    [uk EXCEPT !.KeyData = MapPut(uk.KeyData, key.kid, MarshalKey(key))]

SetDeviceKey(uk, deviceType, key) ==
    [uk EXCEPT !.KeyData = MapPut(uk.KeyData, deviceType, MarshalKey(key))]

RemoveDeviceKey(uk, deviceType) ==
    [uk EXCEPT !.KeyData = MapDelete(uk.KeyData, deviceType)]

IsEmpty(uk) == DOMAIN uk.KeyData = {}

\* the device types of uk whose stored key parses and carries key id keyID
\* (the loops "for deviceType, keyData := range keyset.KeyData")
SlotsOfKeyID(uk, keyID) ==
    {d \in DOMAIN uk.KeyData :
        ParseKey(uk.KeyData[d]).ok /\ ParseKey(uk.KeyData[d]).key.kid = keyID}

\* ---------------------------------------------------------------- LRUCache
\* a cache is its evictList, front (most recently used) first; items is the
\* index of that list by key
NewLRUCache == <<>>

CacheItem(key, value, timestamp) == [key |-> key, value |-> value, timestamp |-> timestamp]

LRUIndex(c, key) ==
    IF \E i \in 1..Len(c) : c[i].key = key
    THEN CHOOSE i \in 1..Len(c) : c[i].key = key
    ELSE 0

LRUHas(c, key) == LRUIndex(c, key) # 0

Expired(item, t) == CacheTTL > 0 /\ t - item.timestamp > CacheTTL

removeElement(c, i) == RemoveAt(c, i)

evictOldest(c) == IF Len(c) > 0 THEN removeElement(c, Len(c)) ELSE c

\* a Get that leaves the item where it is in the list
LRUGetInPlace(c, key, t) ==
    LET i == LRUIndex(c, key) IN
    IF i = 0 THEN [cache |-> c, hit |-> FALSE, value |-> <<>>]
    ELSE IF Expired(c[i], t)
         THEN [cache |-> removeElement(c, i), hit |-> FALSE, value |-> <<>>]
         ELSE [cache |-> c, hit |-> TRUE, value |-> c[i].value]

\* a Get whose hit stamps the item anew
LRUGetTouching(c, key, t) ==
    LET i == LRUIndex(c, key) IN
    IF i = 0 THEN [cache |-> c, hit |-> FALSE, value |-> <<>>]
    ELSE IF Expired(c[i], t)
         THEN [cache |-> removeElement(c, i), hit |-> FALSE, value |-> <<>>]
         ELSE [cache |-> <<CacheItem(key, c[i].value, t)>> \o removeElement(c, i),
               hit |-> TRUE, value |-> c[i].value]

\* Get: [cache, hit, value]; value is meaningful on a hit only
LRUGet(c, key, t) ==
    LET i == LRUIndex(c, key) IN
    IF i = 0 THEN [cache |-> c, hit |-> FALSE, value |-> <<>>]
    ELSE IF Expired(c[i], t)
         THEN [cache |-> removeElement(c, i), hit |-> FALSE, value |-> <<>>]
         ELSE [cache |-> <<c[i]>> \o removeElement(c, i), hit |-> TRUE, value |-> c[i].value]

\* a Put that pushes a second item for a key the list holds
LRUPutAgain(c, key, value, t, capacity) ==
    LET pushed == <<CacheItem(key, value, t)>> \o c IN
    IF Len(pushed) > capacity THEN evictOldest(pushed) ELSE pushed

LRUPut(c, key, value, t, capacity) ==
    LET i == LRUIndex(c, key) IN
    IF i # 0
    THEN <<CacheItem(key, value, t)>> \o removeElement(c, i)
    ELSE LET pushed == <<CacheItem(key, value, t)>> \o c IN
         IF Len(pushed) > capacity THEN evictOldest(pushed) ELSE pushed

LRURemove(c, key) ==
    LET i == LRUIndex(c, key) IN
    IF i # 0 THEN removeElement(c, i) ELSE c

LRUClear == NewLRUCache

LRUSize(c) == Len(c)

\* the run of expired items at the back of the list, which the sweep collects
RECURSIVE ExpiredTail(_, _)
ExpiredTail(c, t) ==
    IF Len(c) > 0 /\ Expired(c[Len(c)], t)
    THEN 1 + ExpiredTail(SubSeq(c, 1, Len(c) - 1), t)
    ELSE 0

LRUCleanupExpired(c, t) ==
    IF CacheTTL <= 0 THEN [cache |-> c, count |-> 0]
    ELSE LET n == ExpiredTail(c, t) IN
         [cache |-> SubSeq(c, 1, Len(c) - n), count |-> n]

\* ---------------------------------------------------------------- repository
\* the table user_keysets: a function from the users that have a row to the
\* row's key_data document.  fail is the outcome of the database call.
ErrNoRows == "no keyset found for user"
ErrIO == "database error"
NoErr == ""

SaveUserKeyset(table, userID, keyData, fail) ==
    IF fail THEN [err |-> ErrIO, table |-> table]
    ELSE [err |-> NoErr, table |-> MapPut(table, userID, keyData)]

GetUserKeyset(table, userID, fail) ==
    IF fail THEN [err |-> ErrIO, keyset |-> NewUserKeyset(userID)]
    ELSE IF userID \notin DOMAIN table
         THEN [err |-> ErrNoRows, keyset |-> NewUserKeyset(userID)]
         ELSE [err |-> NoErr,
               keyset |-> [UserID |-> userID, KeyData |-> UnmarshalKeyData(table[userID])]]

DeleteUserKeyset(table, userID, fail) ==
    IF fail THEN [err |-> ErrIO, table |-> table]
    ELSE IF userID \notin DOMAIN table
         THEN [err |-> ErrNoRows, table |-> table]
         ELSE [err |-> NoErr, table |-> MapDelete(table, userID)]

GetAllUserKeysets(table, fail) ==
    IF fail THEN [err |-> ErrIO, keysets |-> {}]
    ELSE [err |-> NoErr,
          keysets |-> {[UserID |-> u, KeyData |-> UnmarshalKeyData(table[u])] : u \in DOMAIN table}]

FindKeysetByKeyID(table, keyID, fail) ==
    LET all == GetAllUserKeysets(table, fail)
        found == {uk \in all.keysets : SlotsOfKeyID(uk, keyID) # {}}
    IN  IF all.err # NoErr THEN [err |-> ErrIO, keyset |-> NewUserKeyset(0)]
        ELSE IF found = {} THEN [err |-> "no keyset found containing key ID", keyset |-> NewUserKeyset(0)]
        ELSE [err |-> NoErr, keyset |-> CHOOSE uk \in found : TRUE]

\* ---------------------------------------------------------------- OptimizedKeyCache
NewOptimizedKeyCache == [parsedKeys |-> NewLRUCache, userKeysets |-> NewLRUCache, keyToUser |-> NewLRUCache]

PutParsedKey(c, keyID, key, t) ==
    [c EXCEPT !.parsedKeys = LRUPut(@, keyID, key, t, KeyCapacity)]

PutUserKeyset(c, userID, keyset, t) ==
    [c EXCEPT !.userKeysets = LRUPut(@, formatUserKeysetKey(userID), keyset, t, KeysetCapacity)]

PutUserIDByKeyID(c, keyID, userID, t) ==
    [c EXCEPT !.keyToUser = LRUPut(@, keyID, userID, t, LookupCapacity)]

RemoveParsedKey(c, keyID) == [c EXCEPT !.parsedKeys = LRURemove(@, keyID)]

RemoveUserKeyset(c, userID) == [c EXCEPT !.userKeysets = LRURemove(@, formatUserKeysetKey(userID))]

RemoveUserIDByKeyID(c, keyID) == [c EXCEPT !.keyToUser = LRURemove(@, keyID)]

CacheCleanupExpired(c, t) ==
    LET a == LRUCleanupExpired(c.parsedKeys, t)
        b == LRUCleanupExpired(c.userKeysets, t)
        d == LRUCleanupExpired(c.keyToUser, t)
    IN  [cache |-> [parsedKeys |-> a.cache, userKeysets |-> b.cache, keyToUser |-> d.cache],
         count |-> a.count + b.count + d.count]

\* ---------------------------------------------------------------- jwkManager
\* The manager's state as one value m:
\*   m.db           the table behind userRepo
\*   m.cache        the OptimizedKeyCache
\*   m.userKeysets, m.parsedKeys, m.keyToUser   the legacy maps
NewJwkManager ==
    [db |-> EmptyMap, cache |-> NewOptimizedKeyCache,
     userKeysets |-> EmptyMap, parsedKeys |-> EmptyMap, keyToUser |-> EmptyMap]

\* --- CreateSessionKey, in the order of the code
\* lines 86-96: any load error starts from an empty keyset
createLoad(m, userID, loadFail) ==
    LET r == GetUserKeyset(m.db, userID, loadFail) IN
    IF r.err # NoErr THEN NewUserKeyset(userID) ELSE r.keyset

\* lines 98-113: drop the device type's old key from the indices and the keyset
createPurge(m, keyset, deviceType) ==
    IF HasDeviceKey(keyset, deviceType)
    THEN LET old == GetDeviceKey(keyset, deviceType)
             purged == IF old.ok
                       THEN [m EXCEPT !.cache = RemoveUserIDByKeyID(RemoveParsedKey(@, old.key.kid), old.key.kid),
                                      !.parsedKeys = MapDelete(@, old.key.kid),
                                      !.keyToUser = MapDelete(@, old.key.kid)]
                       ELSE m
         IN  [m |-> purged, keyset |-> RemoveDeviceKey(keyset, deviceType)]
    ELSE [m |-> m, keyset |-> keyset]

\* lines 120-128
createSave(m, userID, keyset, saveFail) ==
    LET r == SaveUserKeyset(m.db, userID, MarshalKeyData(keyset.KeyData), saveFail) IN
    [m |-> [m EXCEPT !.db = r.table], err |-> r.err]

\* lines 130-138
createCache(m, userID, keyset, key, t) ==
    [m EXCEPT !.cache = PutUserIDByKeyID(PutParsedKey(PutUserKeyset(@, userID, keyset, t),
                                                       key.kid, key, t), key.kid, userID, t),
              !.userKeysets = MapPut(@, userID, keyset),
              !.parsedKeys = MapPut(@, key.kid, key),
              !.keyToUser = MapPut(@, key.kid, userID)]

\* the whole call: [m, err, keyID]
CreateSessionKey(m, userID, deviceType, key, t, loadFail, saveFail) ==
    LET loaded == createLoad(m, userID, loadFail)
        p == createPurge(m, loaded, deviceType)
        keyset == SetDeviceKey(p.keyset, deviceType, key)
        saved == createSave(p.m, userID, keyset, saveFail)
    IN  IF saved.err # NoErr
        THEN [m |-> saved.m, err |-> "failed to save keyset to database", keyID |-> <<>>]
        ELSE [m |-> createCache(saved.m, userID, keyset, key, t), err |-> NoErr, keyID |-> key.kid]

\* --- DeleteSessionKey
\* a search that goes by the device type the key id names, not by the key id
deleteFindByDeviceType(keyset, keyID) ==
    LET slots == {d \in DOMAIN keyset.KeyData : d = SubSeq(keyID, 1, Len(keyID) - 4)} IN
    IF slots = {} THEN [found |-> FALSE, deviceType |-> <<>>]
    ELSE [found |-> TRUE, deviceType |-> CHOOSE d \in slots : TRUE]

\* lines 152-174: the device type whose key carries keyID
deleteFind(keyset, keyID) ==
    LET slots == SlotsOfKeyID(keyset, keyID) IN
    IF slots = {} THEN [found |-> FALSE, deviceType |-> <<>>]
    ELSE [found |-> TRUE, deviceType |-> CHOOSE d \in slots : TRUE]

\* a delete that saves the keyset it has emptied
deleteWriteKeepRow(m, userID, keyset, writeFail) ==
    LET r == SaveUserKeyset(m.db, userID, MarshalKeyData(keyset.KeyData), writeFail) IN
    [m |-> [m EXCEPT !.db = r.table], err |-> r.err]

\* a delete that drops the user's row whatever keys are left
deleteWriteWholeRow(m, userID, keyset, writeFail) ==
    LET r == DeleteUserKeyset(m.db, userID, writeFail) IN
    [m |-> [m EXCEPT !.db = r.table], err |-> r.err]

\* lines 179-198: delete the emptied row, or save the reduced keyset
deleteWrite(m, userID, keyset, writeFail) ==
    IF IsEmpty(keyset)
    THEN LET r == DeleteUserKeyset(m.db, userID, writeFail) IN
         [m |-> [m EXCEPT !.db = r.table], err |-> r.err]
    ELSE LET r == SaveUserKeyset(m.db, userID, MarshalKeyData(keyset.KeyData), writeFail) IN
         [m |-> [m EXCEPT !.db = r.table], err |-> r.err]

\* a delete that leaves the parsed key in its index
deleteCacheKeepParsed(m, userID, keyset, keyID, t) ==
    LET c1 == IF IsEmpty(keyset)
              THEN RemoveUserKeyset(m.cache, userID)
              ELSE PutUserKeyset(m.cache, userID, keyset, t)
    IN  [m EXCEPT !.cache = RemoveUserIDByKeyID(c1, keyID),
                  !.userKeysets = IF IsEmpty(keyset) THEN MapDelete(@, userID)
                                                     ELSE MapPut(@, userID, keyset),
                  !.keyToUser = MapDelete(@, keyID)]

\* lines 185-188, 199-211
deleteCache(m, userID, keyset, keyID, t) ==
    LET c1 == IF IsEmpty(keyset)
              THEN RemoveUserKeyset(m.cache, userID)
              ELSE PutUserKeyset(m.cache, userID, keyset, t)
    IN  [m EXCEPT !.cache = RemoveUserIDByKeyID(RemoveParsedKey(c1, keyID), keyID),
                  !.userKeysets = IF IsEmpty(keyset) THEN MapDelete(@, userID)
                                                     ELSE MapPut(@, userID, keyset),
                  !.parsedKeys = MapDelete(@, keyID),
                  !.keyToUser = MapDelete(@, keyID)]

\* a delete that drops the key from the indices before it writes the store
DeleteSessionKeyPurgeFirst(m, userID, keyID, t, loadFail, writeFail) ==
    LET loaded == GetUserKeyset(m.db, userID, loadFail)
        f == deleteFind(loaded.keyset, keyID)
        keyset == RemoveDeviceKey(loaded.keyset, f.deviceType)
        purged == deleteCache(m, userID, keyset, keyID, t)
        written == deleteWrite(purged, userID, keyset, writeFail)
    IN  IF loaded.err # NoErr THEN [m |-> m, err |-> "failed to load user keyset"]
        ELSE IF ~f.found THEN [m |-> m, err |-> "key ID not found in user's keyset"]
        ELSE IF written.err # NoErr THEN [m |-> written.m, err |-> "failed to write keyset"]
        ELSE [m |-> written.m, err |-> NoErr]

\* the whole call: [m, err]
DeleteSessionKey(m, userID, keyID, t, loadFail, writeFail) ==
    LET loaded == GetUserKeyset(m.db, userID, loadFail)
        f == deleteFind(loaded.keyset, keyID)
        keyset == RemoveDeviceKey(loaded.keyset, f.deviceType)
        written == deleteWrite(m, userID, keyset, writeFail)
    IN  IF loaded.err # NoErr THEN [m |-> m, err |-> "failed to load user keyset"]
        ELSE IF ~f.found THEN [m |-> m, err |-> "key ID not found in user's keyset"]
        ELSE IF written.err # NoErr THEN [m |-> written.m, err |-> "failed to write keyset"]
        ELSE [m |-> deleteCache(written.m, userID, keyset, keyID, t), err |-> NoErr]

\* --- GetSessionKeys
\* the key ids of the parseable keys of keyData, in the order the range visits them
RECURSIVE KeyIDsOf(_, _)
KeyIDsOf(keyData, todo) ==
    IF todo = {} THEN <<>>
    ELSE LET d == CHOOSE x \in todo : TRUE
             k == ParseKey(keyData[d])
         IN  (IF k.ok THEN <<k.key.kid>> ELSE <<>>) \o KeyIDsOf(keyData, todo \ {d})

\* a listing that takes the absent row for a failure
GetSessionKeysNoRowFails(m, userID, loadFail) ==
    LET r == GetUserKeyset(m.db, userID, loadFail) IN
    IF r.err # NoErr THEN [err |-> "failed to get user keyset from database", keyIDs |-> <<>>]
    ELSE [err |-> NoErr, keyIDs |-> KeyIDsOf(r.keyset.KeyData, DOMAIN r.keyset.KeyData)]

\* [err, keyIDs]
GetSessionKeys(m, userID, loadFail) ==
    LET r == GetUserKeyset(m.db, userID, loadFail) IN
    IF r.err = ErrNoRows THEN [err |-> NoErr, keyIDs |-> <<>>]
    ELSE IF r.err # NoErr THEN [err |-> "failed to get user keyset from database", keyIDs |-> <<>>]
    ELSE [err |-> NoErr, keyIDs |-> KeyIDsOf(r.keyset.KeyData, DOMAIN r.keyset.KeyData)]

\* --- GetPrivateKeyByID
\* lines 250-277, the cache part: the parsed key, else the owner's cached keyset
\* need: "hit" (answered) | "cached" (keyset from the cache) | "user" (load the
\* owner's row) | "find" (scan all rows)
getLookup(m, keyID, t) ==
    LET pk == LRUGet(m.cache.parsedKeys, keyID, t)
        c1 == [m.cache EXCEPT !.parsedKeys = pk.cache]
        ku == LRUGet(c1.keyToUser, keyID, t)
        c2 == [c1 EXCEPT !.keyToUser = ku.cache]
        ks == LRUGet(c2.userKeysets, formatUserKeysetKey(ku.value), t)
        c3 == [c2 EXCEPT !.userKeysets = ks.cache]
    IN  IF pk.hit THEN [m |-> [m EXCEPT !.cache = c1], need |-> "hit", key |-> pk.value,
                        userID |-> 0, keyset |-> NewUserKeyset(0)]
        ELSE IF ~ku.hit THEN [m |-> [m EXCEPT !.cache = c2], need |-> "find", key |-> NewKey(<<>>, 0),
                              userID |-> 0, keyset |-> NewUserKeyset(0)]
        ELSE IF ks.hit THEN [m |-> [m EXCEPT !.cache = c3], need |-> "cached", key |-> NewKey(<<>>, 0),
                             userID |-> ku.value, keyset |-> ks.value]
        ELSE [m |-> [m EXCEPT !.cache = c3], need |-> "user", key |-> NewKey(<<>>, 0),
              userID |-> ku.value, keyset |-> NewUserKeyset(0)]

\* lines 268-287, the store part: [m, err, keyset]
getFetch(m, need, userID, keyID, t, loadFail, findFail) ==
    LET byUser == GetUserKeyset(m.db, userID, loadFail)
        byScan == FindKeysetByKeyID(m.db, keyID, findFail)
    IN  IF need = "user" /\ byUser.err = NoErr
        THEN [m |-> [m EXCEPT !.cache = PutUserKeyset(@, userID, byUser.keyset, t)],
              err |-> NoErr, keyset |-> byUser.keyset]
        ELSE IF byScan.err # NoErr
             THEN [m |-> m, err |-> "key not found in consolidated storage", keyset |-> byScan.keyset]
             ELSE [m |-> [m EXCEPT !.cache = PutUserKeyset(@, byScan.keyset.UserID, byScan.keyset, t)],
                   err |-> NoErr, keyset |-> byScan.keyset]

\* lines 289-323: find the key in the keyset and index it: [m, err, key]
getFinish(m, keyset, keyID, t) ==
    LET slots == SlotsOfKeyID(keyset, keyID)
        foundKey == ParseKey(keyset.KeyData[CHOOSE d \in slots : TRUE]).key
    IN  IF slots = {} THEN [m |-> m, err |-> "key ID not found in keyset", key |-> NewKey(<<>>, 0)]
        ELSE [m |-> [m EXCEPT !.cache = PutUserIDByKeyID(PutParsedKey(@, keyID, foundKey, t),
                                                          keyID, keyset.UserID, t),
                              !.parsedKeys = MapPut(@, keyID, foundKey),
                              !.keyToUser = MapPut(@, keyID, keyset.UserID)],
              err |-> NoErr, key |-> foundKey]

\* the whole call: [m, err, key]
GetPrivateKeyByID(m, keyID, t, loadFail, findFail) ==
    LET l == getLookup(m, keyID, t)
        f == getFetch(l.m, l.need, l.userID, keyID, t, loadFail, findFail)
    IN  IF l.need = "hit" THEN [m |-> l.m, err |-> NoErr, key |-> l.key]
        ELSE IF l.need = "cached" THEN getFinish(l.m, l.keyset, keyID, t)
        ELSE IF f.err # NoErr THEN [m |-> f.m, err |-> f.err, key |-> NewKey(<<>>, 0)]
        ELSE getFinish(f.m, f.keyset, keyID, t)

\* --- LoadUserKeysFromDB
\* the legacy reverse index names these key ids as userID's
legacyKeysOf(m, userID) == {k \in DOMAIN m.keyToUser : m.keyToUser[k] = userID}

RECURSIVE removeKeysFromCache(_, _)
removeKeysFromCache(c, keyIDs) ==
    IF keyIDs = {} THEN c
    ELSE LET k == CHOOSE x \in keyIDs : TRUE IN
         removeKeysFromCache(RemoveUserIDByKeyID(RemoveParsedKey(c, k), k), keyIDs \ {k})

\* lines 406-417: no row, only the legacy maps are cleared
loadClearLegacy(m, userID) ==
    LET mine == legacyKeysOf(m, userID) IN
    [m EXCEPT !.keyToUser = [k \in (DOMAIN @) \ mine |-> @[k]],
              !.parsedKeys = [k \in (DOMAIN @) \ mine |-> @[k]],
              !.userKeysets = MapDelete(@, userID)]

\* lines 421-434: the row exists, the user's entries leave the caches too
loadClear(m, userID) ==
    LET mine == legacyKeysOf(m, userID)
        cleared == loadClearLegacy(m, userID)
    IN  [cleared EXCEPT !.cache = removeKeysFromCache(RemoveUserKeyset(@, userID), mine)]

\* lines 438-455: index the keys of the keyset, in the order the range visits them
RECURSIVE loadFill(_, _, _, _)
loadFill(m, keyset, order, t) ==
    IF order = <<>> THEN m
    ELSE LET k == ParseKey(keyset.KeyData[Head(order)])
             next == IF k.ok
                     THEN [m EXCEPT !.cache = PutUserIDByKeyID(PutParsedKey(@, k.key.kid, k.key, t),
                                                               k.key.kid, keyset.UserID, t),
                                    !.parsedKeys = MapPut(@, k.key.kid, k.key),
                                    !.keyToUser = MapPut(@, k.key.kid, keyset.UserID)]
                     ELSE m
         IN  loadFill(next, keyset, Tail(order), t)

\* the orders in which a range over the map can visit its device types
RangeOrders(keyData) ==
    {o \in UNION {[1..n -> DOMAIN keyData] : n \in {Cardinality(DOMAIN keyData)}} :
        \A i, j \in DOMAIN o : i # j => o[i] # o[j]}

\* the whole call: [m, err]
LoadUserKeysFromDB(m, userID, t, order, loadFail) ==
    LET r == GetUserKeyset(m.db, userID, loadFail)
        filled == loadFill(loadClear(m, userID), r.keyset, order, t)
    IN  IF r.err = ErrNoRows THEN [m |-> loadClearLegacy(m, userID), err |-> NoErr]
        ELSE IF r.err # NoErr THEN [m |-> m, err |-> "failed to load user keyset from database"]
        ELSE [m |-> [filled EXCEPT !.cache = PutUserKeyset(@, userID, r.keyset, t),
                                   !.userKeysets = MapPut(@, userID, r.keyset)],
              err |-> NoErr]

\* --- CleanupExpiredCache: [m, count]
CleanupExpiredCache(m, t) ==
    LET r == CacheCleanupExpired(m.cache, t) IN
    [m |-> [m EXCEPT !.cache = r.cache], count |-> r.count]

\* ---------------------------------------------------------------- core.jwkManager
\* The prefix-keyed manager as one value cm:
\*   cm.jwkSet       nil, or the set: key id -> key material
\*   cm.keyCache     key prefix -> cachedKey
\*   cm.keyMetadata  key prefix -> KeyMetadata
NilSet == [nil |-> TRUE, keys |-> EmptyMap]

NewCoreJwkManager == [jwkSet |-> NilSet, keyCache |-> EmptyMap, keyMetadata |-> EmptyMap]

\* sync.RWMutex: the goroutine that holds the lock (0: none) and the
\* goroutines that hold the read lock
NewRWMutex == [w |-> 0, r |-> {}]

\* the goroutines that call the core manager at the same time
Goroutines == {1, 2}

\* a goroutine that is in no call
\* onNil: the set was nil when the call began; arg: the JSON text handed in
NoCall == [op |-> "none", keyPrefix |-> <<>>, pc |-> "idle", err |-> "", onNil |-> FALSE, arg |-> <<>>]

\* ---------------------------------------------------------------- CacheMetrics, CacheManager
\* internal/manager/lru_cache.go, lines 176-182 and 190
NewCacheMetrics == [hits |-> 0, misses |-> 0, evictions |-> 0, expiredCleanups |-> 0]

\* lines 271-275
GetMetrics(mt) == mt

\* lines 278-285
ResetMetrics(mt) == [mt EXCEPT !.hits = 0, !.misses = 0, !.evictions = 0, !.expiredCleanups = 0]

\* lines 288-299
recordHit(mt) == [mt EXCEPT !.hits = @ + 1]

recordMiss(mt) == [mt EXCEPT !.misses = @ + 1]

\* lines 263-265: the count of the three cleanups goes to expiredCleanups
recordExpired(mt, count) == [mt EXCEPT !.expiredCleanups = @ + count]

\* lines 315-333: the manager before Start; ctx is its context, pc the place
\* of the cleanup goroutine, tick whether ticker.C holds a tick
NewCacheManager == [ctx |-> "live", pc |-> "none", tick |-> FALSE]

\* ---------------------------------------------------------------- state
VARIABLES
    db,           \* user_keysets: userID -> key_data document
    cache,        \* j.cache: the three LRU indices
    userKeysets,  \* j.userKeysets (legacy map)
    parsedKeys,   \* j.parsedKeys (legacy map)
    keyToUser,    \* j.keyToUser (legacy map)
    now,          \* the clock, in ticks
    deleted,      \* history: key ids a successful DeleteSessionKey removed
    replaced,     \* history: <<k1, k2>>, a successful CreateSessionKey put k2 where the row held k1
    procs,        \* SpecConc: each goroutine's call in progress, or what its last call returned
    calls,        \* SpecConc: the number of calls started so far
    lru,          \* SpecLRU: one LRUCache, used on its own
    recency,      \* SpecLRU, history: the keys by their last successful Get or Put, latest first
    lastPut,      \* SpecLRU, history: key -> instant of its last Put
    gone,         \* SpecLRU, history: key -> "removed" or "evicted", what happened to it since its last Put
    core,         \* SpecCore: the prefix-keyed (core) JwkManager
    issued,       \* SpecCore: the tokens handed out, each with the call that issued it and as what
    metrics,      \* SpecMetrics: j.cache.metrics, the counters of the OptimizedKeyCache
    evicted,      \* SpecMetrics, history: the entries Put has evicted for capacity since the last reset
    cleaner,      \* SpecCleaner: the CacheManager and its cleanup goroutine
    storage,      \* SpecStorage: the JSON texts of the set the application has put away
    gor,          \* SpecRace: the call each goroutine is in, and its place in it
    mutex         \* SpecRace: jwkManager.mutex

vars == <<db, cache, userKeysets, parsedKeys, keyToUser, now, deleted, replaced, procs, calls,
          lru, recency, lastPut, gone, core, issued,
          metrics, evicted, cleaner,
          storage, gor, mutex>>

\* the manager's state as one value, and the assignment of one
M == [db |-> db, cache |-> cache, userKeysets |-> userKeysets,
      parsedKeys |-> parsedKeys, keyToUser |-> keyToUser]

Becomes(m) ==
    /\ db' = m.db
    /\ cache' = m.cache
    /\ userKeysets' = m.userKeysets
    /\ parsedKeys' = m.parsedKeys
    /\ keyToUser' = m.keyToUser

\* a goroutine: where it is in its call (pc), the call's arguments and locals,
\* and, once the call has returned (pc = "idle"), what it returned
Goroutine(pc, op, userID, deviceType, keyID, key, keyset, err) ==
    [pc |-> pc, op |-> op, userID |-> userID, deviceType |-> deviceType, keyID |-> keyID,
     key |-> key, keyset |-> keyset, err |-> err]

Returned(op, userID, deviceType, keyID, err) ==
    Goroutine("idle", op, userID, deviceType, keyID, NewKey(<<>>, 0), NewUserKeyset(0), err)

Idle == Returned("", 0, <<>>, <<>>, NoErr)

Init ==
    /\ db = NewJwkManager.db
    /\ cache = NewJwkManager.cache
    /\ userKeysets = NewJwkManager.userKeysets
    /\ parsedKeys = NewJwkManager.parsedKeys
    /\ keyToUser = NewJwkManager.keyToUser
    /\ now = 0
    /\ deleted = {}
    /\ replaced = {}
    /\ procs = [p \in Procs |-> Idle]
    /\ calls = 0
    /\ lru = NewLRUCache
    /\ recency = <<>>
    /\ lastPut = EmptyMap
    /\ gone = EmptyMap
    /\ core = NewCoreJwkManager
    /\ issued = {}
    /\ metrics = NewCacheMetrics
    /\ evicted = 0
    /\ cleaner = NewCacheManager
    /\ storage = {}
    /\ gor = [g \in Goroutines |-> NoCall]
    /\ mutex = NewRWMutex

\* ---------------------------------------------------------------- the store, as the calls see it
\* the key id the row of userID holds for deviceType, if any (a set of at most one)
StoredKeyIDs(table, userID, deviceType) ==
    IF userID \in DOMAIN table /\ deviceType \in DOMAIN UnmarshalKeyData(table[userID])
    THEN LET k == ParseKey(UnmarshalKeyData(table[userID])[deviceType]) IN
         IF k.ok THEN {k.key.kid} ELSE {}
    ELSE {}

\* keyID is the key id of some key of some row
InStore(table, keyID) ==
    \E u \in DOMAIN table :
        SlotsOfKeyID([UserID |-> u, KeyData |-> UnmarshalKeyData(table[u])], keyID) # {}

\* the error GetPrivateKeyByID(keyID) returns now, the store answering
ResolveErr(m, keyID, t) == GetPrivateKeyByID(m, keyID, t, FALSE, FALSE).err

Resolves(keyID) == ResolveErr(M, keyID, now) = NoErr

\* ---------------------------------------------------------------- calls, one at a time
\* every key id the manager can have issued, over all instants
KeyIDs == {KeyIDFormat(d, u, t) : d \in Devices, u \in Users, t \in 0..MaxTime}

\* the key ids a caller can hold: those in the store or in an index, and a
\* stranger.  A call with any other key id does what it does with the stranger.
HeldKeyIDs ==
    {k \in KeyIDs : \/ InStore(db, k)
                    \/ LRUHas(cache.parsedKeys, k) \/ LRUHas(cache.keyToUser, k)
                    \/ k \in DOMAIN keyToUser}
        \cup {KeyIDFormat(<<"web">>, 0, 0)}

\* the outcomes of the store calls of one operation: a call after a failed one is not made
StoreOutcomes == {<<FALSE, FALSE>>, <<TRUE, FALSE>>, <<FALSE, TRUE>>}

\* the key a CreateSessionKey call that stamps its key id at instant t makes.
\* The key's material is named by the instant of its generation.
KeyMadeAt(userID, deviceType, t) == NewKey(KeyIDFormat(deviceType, userID, t), t)

\* The call takes time (rsa.GenerateKey): the clock has advanced when it returns,
\* so that no two calls in sequence stamp the same instant.
CreateSessionKeyCall(userID, deviceType, loadFail, saveFail) ==
    /\ now < MaxTime
    /\ now' = now + 1
    /\ LET r == CreateSessionKey(M, userID, deviceType, KeyMadeAt(userID, deviceType, now),
                                 now, loadFail, saveFail)
       IN  /\ Becomes(r.m)
           /\ replaced' = IF r.err = NoErr
                          THEN replaced \cup {<<k, r.keyID>> : k \in StoredKeyIDs(db, userID, deviceType)}
                          ELSE replaced
    /\ UNCHANGED <<deleted, procs, calls, lru, recency, lastPut, gone, core, issued, metrics, evicted, cleaner, storage, gor, mutex>>

DeleteSessionKeyCall(userID, keyID, loadFail, writeFail) ==
    /\ LET r == DeleteSessionKey(M, userID, keyID, now, loadFail, writeFail) IN
           /\ Becomes(r.m)
           /\ deleted' = IF r.err = NoErr THEN deleted \cup {keyID} ELSE deleted
    /\ UNCHANGED <<now, replaced, procs, calls, lru, recency, lastPut, gone, core, issued, metrics, evicted, cleaner, storage, gor, mutex>>

\* reads the store only
GetSessionKeysCall(userID, loadFail) ==
    /\ GetSessionKeys(M, userID, loadFail).err \in {NoErr, "failed to get user keyset from database"}
    /\ UNCHANGED vars

GetPrivateKeyByIDCall(keyID, loadFail, findFail) ==
    /\ Becomes(GetPrivateKeyByID(M, keyID, now, loadFail, findFail).m)
    /\ UNCHANGED <<now, deleted, replaced, procs, calls, lru, recency, lastPut, gone, core, issued, metrics, evicted, cleaner, storage, gor, mutex>>

LoadUserKeysFromDBCall(userID, loadFail) ==
    /\ \E order \in RangeOrders(GetUserKeyset(db, userID, loadFail).keyset.KeyData) :
           Becomes(LoadUserKeysFromDB(M, userID, now, order, loadFail).m)
    /\ UNCHANGED <<now, deleted, replaced, procs, calls, lru, recency, lastPut, gone, core, issued, metrics, evicted, cleaner, storage, gor, mutex>>

CleanupExpiredCacheCall ==
    /\ Becomes(CleanupExpiredCache(M, now).m)
    /\ UNCHANGED <<now, deleted, replaced, procs, calls, lru, recency, lastPut, gone, core, issued, metrics, evicted, cleaner, storage, gor, mutex>>

\* time passes between calls
Tick ==
    /\ now < MaxTime
    /\ now' = now + 1
    /\ UNCHANGED <<db, cache, userKeysets, parsedKeys, keyToUser, deleted, replaced, procs, calls, lru, recency, lastPut, gone, core, issued, metrics, evicted, cleaner, storage, gor, mutex>>

Next ==
    \/ \E u \in Users, d \in Devices, lf, sf \in BOOLEAN : CreateSessionKeyCall(u, d, lf, sf)
    \/ \E u \in Users, k \in HeldKeyIDs, f \in StoreOutcomes : DeleteSessionKeyCall(u, k, f[1], f[2])
    \/ \E u \in Users, lf \in BOOLEAN : GetSessionKeysCall(u, lf)
    \/ \E k \in HeldKeyIDs, lf, ff \in BOOLEAN : GetPrivateKeyByIDCall(k, lf, ff)
    \/ \E u \in Users, lf \in BOOLEAN : LoadUserKeysFromDBCall(u, lf)
    \/ CleanupExpiredCacheCall
    \/ Tick

Spec == Init /\ [][Next]_vars

\* ---------------------------------------------------------------- calls of concurrent goroutines
\* A call is cut where it reads or writes the store and where it updates the
\* indices; between two cuts the other goroutine may run.  The manager has no
\* mutex of its own (struct jwkManager), each LRUCache has one.
\* In SpecConc every store call succeeds: what goes wrong there is the
\* interleaving alone.

Step(p, next) == procs' = [procs EXCEPT ![p] = next]

\* --- CreateSessionKey
\* the clock when a CreateSessionKey call returns
Elapsed == IF now < MaxTime THEN now + 1 ELSE now

\* line 67: rsa.GenerateKey; the material is named by the serial of the call
CreateGenerate(p, userID, deviceType) ==
    /\ procs[p].pc = "idle"
    /\ calls < MaxCalls
    /\ calls' = calls + 1
    /\ now < MaxTime
    /\ Step(p, Goroutine("create.load", "CreateSessionKey", userID, deviceType, <<>>,
                         NewKey(<<>>, calls'), NewUserKeyset(userID), NoErr))
    /\ UNCHANGED <<db, cache, userKeysets, parsedKeys, keyToUser, now, deleted, replaced, lru, recency, lastPut, gone, core, issued, metrics, evicted, cleaner, storage, gor, mutex>>

\* lines 79-96: stamp the key id with the clock, load the keyset
CreateLoad(p, loadFail) ==
    LET g == procs[p]
        keyID == KeyIDFormat(g.deviceType, g.userID, now)
    IN  /\ g.pc = "create.load"
        /\ Step(p, [g EXCEPT !.pc = "create.purge", !.keyID = keyID,
                             !.key = NewKey(keyID, g.key.material),
                             !.keyset = createLoad(M, g.userID, loadFail)])
        /\ UNCHANGED <<db, cache, userKeysets, parsedKeys, keyToUser, now, deleted, replaced, calls, lru, recency, lastPut, gone, core, issued, metrics, evicted, cleaner, storage, gor, mutex>>

\* lines 98-118
CreatePurge(p) ==
    LET g == procs[p]
        r == createPurge(M, g.keyset, g.deviceType)
    IN  /\ g.pc = "create.purge"
        /\ Becomes(r.m)
        /\ Step(p, [g EXCEPT !.pc = "create.save", !.keyset = SetDeviceKey(r.keyset, g.deviceType, g.key)])
        /\ UNCHANGED <<now, deleted, replaced, calls, lru, recency, lastPut, gone, core, issued, metrics, evicted, cleaner, storage, gor, mutex>>

\* lines 120-128
CreateSave(p, saveFail) ==
    LET g == procs[p]
        r == createSave(M, g.userID, g.keyset, saveFail)
    IN  /\ g.pc = "create.save"
        /\ Becomes(r.m)
        /\ Step(p, IF r.err # NoErr
                   THEN Returned(g.op, g.userID, g.deviceType, <<>>, "failed to save keyset to database")
                   ELSE [g EXCEPT !.pc = "create.cache"])
        /\ now' = IF r.err # NoErr THEN Elapsed ELSE now
        /\ UNCHANGED <<deleted, replaced, calls, lru, recency, lastPut, gone, core, issued, metrics, evicted, cleaner, storage, gor, mutex>>

\* lines 130-140
CreateCache(p) ==
    LET g == procs[p] IN
        /\ g.pc = "create.cache"
        /\ Becomes(createCache(M, g.userID, g.keyset, g.key, now))
        /\ Step(p, Returned(g.op, g.userID, g.deviceType, g.keyID, NoErr))
        /\ now' = Elapsed
        /\ UNCHANGED <<deleted, replaced, calls, lru, recency, lastPut, gone, core, issued, metrics, evicted, cleaner, storage, gor, mutex>>

\* --- DeleteSessionKey
\* lines 146-177
DeleteLoad(p, userID, keyID, loadFail) ==
    LET loaded == GetUserKeyset(db, userID, loadFail)
        f == deleteFind(loaded.keyset, keyID)
    IN  /\ procs[p].pc = "idle"
        /\ calls < MaxCalls
        /\ calls' = calls + 1
        /\ Step(p, IF loaded.err # NoErr
                   THEN Returned("DeleteSessionKey", userID, <<>>, keyID, "failed to load user keyset")
                   ELSE IF ~f.found
                   THEN Returned("DeleteSessionKey", userID, <<>>, keyID, "key ID not found in user's keyset")
                   ELSE Goroutine("delete.write", "DeleteSessionKey", userID, f.deviceType, keyID,
                                  NewKey(<<>>, 0), RemoveDeviceKey(loaded.keyset, f.deviceType), NoErr))
        /\ UNCHANGED <<db, cache, userKeysets, parsedKeys, keyToUser, now, deleted, replaced, lru, recency, lastPut, gone, core, issued, metrics, evicted, cleaner, storage, gor, mutex>>

\* lines 179-198
DeleteWrite(p, writeFail) ==
    LET g == procs[p]
        r == deleteWrite(M, g.userID, g.keyset, writeFail)
    IN  /\ g.pc = "delete.write"
        /\ Becomes(r.m)
        /\ Step(p, IF r.err # NoErr
                   THEN Returned(g.op, g.userID, g.deviceType, g.keyID, "failed to write keyset")
                   ELSE [g EXCEPT !.pc = "delete.cache"])
        /\ UNCHANGED <<now, deleted, replaced, calls, lru, recency, lastPut, gone, core, issued, metrics, evicted, cleaner, storage, gor, mutex>>

\* lines 185-188, 199-213
DeleteCache(p) ==
    LET g == procs[p] IN
        /\ g.pc = "delete.cache"
        /\ Becomes(deleteCache(M, g.userID, g.keyset, g.keyID, now))
        /\ Step(p, Returned(g.op, g.userID, g.deviceType, g.keyID, NoErr))
        /\ UNCHANGED <<now, deleted, replaced, calls, lru, recency, lastPut, gone, core, issued, metrics, evicted, cleaner, storage, gor, mutex>>

\* --- GetPrivateKeyByID
\* lines 250-266
GetLookup(p, keyID) ==
    LET l == getLookup(M, keyID, now) IN
        /\ procs[p].pc = "idle"
        /\ calls < MaxCalls
        /\ calls' = calls + 1
        /\ Becomes(l.m)
        /\ Step(p, IF l.need = "hit"
                   THEN Returned("GetPrivateKeyByID", 0, <<>>, keyID, NoErr)
                   ELSE Goroutine(IF l.need = "cached" THEN "get.finish"
                                  ELSE IF l.need = "user" THEN "get.user" ELSE "get.find",
                                  "GetPrivateKeyByID", l.userID, <<>>, keyID, NewKey(<<>>, 0), l.keyset, NoErr))
        /\ UNCHANGED <<now, deleted, replaced, lru, recency, lastPut, gone, core, issued, metrics, evicted, cleaner, storage, gor, mutex>>

\* lines 268-287
GetFetch(p, loadFail, findFail) ==
    LET g == procs[p]
        f == getFetch(M, IF g.pc = "get.user" THEN "user" ELSE "find", g.userID, g.keyID, now,
                      loadFail, findFail)
    IN  /\ g.pc \in {"get.user", "get.find"}
        /\ Becomes(f.m)
        /\ Step(p, IF f.err # NoErr
                   THEN Returned(g.op, 0, <<>>, g.keyID, f.err)
                   ELSE [g EXCEPT !.pc = "get.finish", !.keyset = f.keyset])
        /\ UNCHANGED <<now, deleted, replaced, calls, lru, recency, lastPut, gone, core, issued, metrics, evicted, cleaner, storage, gor, mutex>>

\* lines 289-323
GetFinish(p) ==
    LET g == procs[p]
        r == getFinish(M, g.keyset, g.keyID, now)
    IN  /\ g.pc = "get.finish"
        /\ Becomes(r.m)
        /\ Step(p, Returned(g.op, 0, <<>>, g.keyID, r.err))
        /\ UNCHANGED <<now, deleted, replaced, calls, lru, recency, lastPut, gone, core, issued, metrics, evicted, cleaner, storage, gor, mutex>>

\* --- LoadUserKeysFromDB
\* lines 403-419
LoadRead(p, userID, loadFail) ==
    LET r == GetUserKeyset(db, userID, loadFail) IN
        /\ procs[p].pc = "idle"
        /\ calls < MaxCalls
        /\ calls' = calls + 1
        /\ Step(p, IF r.err = ErrNoRows
                   THEN Goroutine("load.clearLegacy", "LoadUserKeysFromDB", userID, <<>>, <<>>,
                                  NewKey(<<>>, 0), r.keyset, NoErr)
                   ELSE IF r.err # NoErr
                   THEN Returned("LoadUserKeysFromDB", userID, <<>>, <<>>, "failed to load user keyset from database")
                   ELSE Goroutine("load.clear", "LoadUserKeysFromDB", userID, <<>>, <<>>,
                                  NewKey(<<>>, 0), r.keyset, NoErr))
        /\ UNCHANGED <<db, cache, userKeysets, parsedKeys, keyToUser, now, deleted, replaced, lru, recency, lastPut, gone, core, issued, metrics, evicted, cleaner, storage, gor, mutex>>

\* lines 408-416
LoadClearLegacy(p) ==
    LET g == procs[p] IN
        /\ g.pc = "load.clearLegacy"
        /\ Becomes(loadClearLegacy(M, g.userID))
        /\ Step(p, Returned(g.op, g.userID, <<>>, <<>>, NoErr))
        /\ UNCHANGED <<now, deleted, replaced, calls, lru, recency, lastPut, gone, core, issued, metrics, evicted, cleaner, storage, gor, mutex>>

\* lines 421-434
LoadClear(p) ==
    LET g == procs[p] IN
        /\ g.pc = "load.clear"
        /\ Becomes(loadClear(M, g.userID))
        /\ Step(p, [g EXCEPT !.pc = "load.fill"])
        /\ UNCHANGED <<now, deleted, replaced, calls, lru, recency, lastPut, gone, core, issued, metrics, evicted, cleaner, storage, gor, mutex>>

\* lines 436-462
LoadFill(p) ==
    LET g == procs[p] IN
        /\ g.pc = "load.fill"
        /\ \E order \in RangeOrders(g.keyset.KeyData) :
               LET filled == loadFill(M, g.keyset, order, now) IN
               Becomes([filled EXCEPT !.cache = PutUserKeyset(@, g.userID, g.keyset, now),
                                      !.userKeysets = MapPut(@, g.userID, g.keyset)])
        /\ Step(p, Returned(g.op, g.userID, <<>>, <<>>, NoErr))
        /\ UNCHANGED <<now, deleted, replaced, calls, lru, recency, lastPut, gone, core, issued, metrics, evicted, cleaner, storage, gor, mutex>>

\* --- what the next step of a goroutine touches, and under which lock
\* each LRUCache method holds that cache's mutex (lru_cache.go, c.mutex.Lock());
\* the legacy maps are read and written with no lock at all
Locked(res) == [res |-> res, write |-> TRUE, locks |-> {res}]

Bare(res) == [res |-> res, write |-> TRUE, locks |-> {}]

Accesses(g) ==
    IF g.pc = "create.purge"
    THEN IF HasDeviceKey(g.keyset, g.deviceType) /\ GetDeviceKey(g.keyset, g.deviceType).ok
         THEN {Locked("cache.parsedKeys"), Locked("cache.keyToUser"), Bare("parsedKeys"), Bare("keyToUser")}
         ELSE {}
    ELSE IF g.pc \in {"create.cache", "delete.cache", "load.clear", "load.fill"}
    THEN {Locked("cache.userKeysets"), Locked("cache.parsedKeys"), Locked("cache.keyToUser"),
          Bare("userKeysets"), Bare("parsedKeys"), Bare("keyToUser")}
    ELSE IF g.pc = "load.clearLegacy"
    THEN {Bare("userKeysets"), Bare("parsedKeys"), Bare("keyToUser")}
    ELSE IF g.pc \in {"get.user", "get.find"}
    THEN {Locked("cache.userKeysets")}
    ELSE IF g.pc = "get.finish"
    THEN IF SlotsOfKeyID(g.keyset, g.keyID) # {}
         THEN {Locked("cache.parsedKeys"), Locked("cache.keyToUser"), Bare("parsedKeys"), Bare("keyToUser")}
         ELSE {}
    ELSE {}

\* two accesses that need mutual exclusion and have none
Conflict(a, b) == a.res = b.res /\ (a.write \/ b.write) /\ a.locks \cap b.locks = {}

Racing(p, q) == p # q /\ \E a \in Accesses(procs[p]), b \in Accesses(procs[q]) : Conflict(a, b)

\* the user a call is about: its userID argument, or the owner named in the key id
CallUser(g) ==
    IF g.op = "GetPrivateKeyByID" THEN g.keyID[Len(g.keyID) - 2] ELSE g.userID

\* the Go runtime may detect two goroutines in a map at once and abort the
\* program ("fatal error: concurrent map writes")
ConcurrentMapWrites ==
    /\ \E p, q \in Procs : Racing(p, q)
    /\ procs' = [p \in Procs |-> [procs[p] EXCEPT !.pc = "fatal"]]
    /\ UNCHANGED <<db, cache, userKeysets, parsedKeys, keyToUser, now, deleted, replaced, calls, lru, recency, lastPut, gone, core, issued, metrics, evicted, cleaner, storage, gor, mutex>>

NextConc ==
    \/ \E p \in Procs, u \in Users, d \in Devices : CreateGenerate(p, u, d)
    \/ \E p \in Procs : CreateLoad(p, FALSE)
    \/ \E p \in Procs : CreatePurge(p)
    \/ \E p \in Procs : CreateSave(p, FALSE)
    \/ \E p \in Procs : CreateCache(p)
    \/ \E p \in Procs, u \in Users, k \in HeldKeyIDs : DeleteLoad(p, u, k, FALSE)
    \/ \E p \in Procs : DeleteWrite(p, FALSE)
    \/ \E p \in Procs : DeleteCache(p)
    \/ \E p \in Procs, k \in HeldKeyIDs : GetLookup(p, k)
    \/ \E p \in Procs : GetFetch(p, FALSE, FALSE)
    \/ \E p \in Procs : GetFinish(p)
    \/ \E p \in Procs, u \in Users : LoadRead(p, u, FALSE)
    \/ \E p \in Procs : LoadClearLegacy(p)
    \/ \E p \in Procs : LoadClear(p)
    \/ \E p \in Procs : LoadFill(p)
    \/ ConcurrentMapWrites

SpecConc == Init /\ [][NextConc]_vars

\* ---------------------------------------------------------------- properties
\* the device category a key id names: what precedes "-<user>-<nanos>"
CategoryOf(keyID) == SubSeq(keyID, 1, Len(keyID) - 4)

\* the user a key id names
OwnerOf(keyID) == keyID[Len(keyID) - 2]

NotFoundErrors == {"key not found in consolidated storage", "key ID not found in keyset"}

\* C1 - single-device invariant: whatever calls have been made, the list
\* GetSessionKeys(U) returns holds at most one key id of each device category.
SingleDevice ==
    \A u \in Users, d \in Devices :
        LET ids == GetSessionKeys(M, u, FALSE).keyIDs IN
        Cardinality({i \in DOMAIN ids : CategoryOf(ids[i]) = d}) <= 1

\* a user has logged in again on a device, and the new key id is listed
SingleDeviceWitness ==
    \E p \in replaced :
        LET ids == GetSessionKeys(M, OwnerOf(p[2]), FALSE).keyIDs IN
        /\ CategoryOf(p[1]) = CategoryOf(p[2])
        /\ \E i \in DOMAIN ids : ids[i] = p[2]

\* C2 - cross-device independence: a successful CreateSessionKey(U, D1) leaves
\* the key of every other category D2 of U in the row as it was (same key id,
\* same material), and GetPrivateKeyByID of that key id succeeds afterwards.
CrossDeviceIndependence ==
    [][\A u \in Users, d1 \in Devices, lf \in BOOLEAN :
          (/\ CreateSessionKeyCall(u, d1, lf, FALSE)
           /\ CreateSessionKey(M, u, d1, KeyMadeAt(u, d1, now), now, lf, FALSE).err = NoErr)
          => \A d2 \in Devices \ {d1} : \A k \in StoredKeyIDs(db, u, d2) :
                /\ u \in DOMAIN db'
                /\ <<d2, UnmarshalKeyData(db[u])[d2]>> \in db'[u]
                /\ ResolveErr(M', k, now') = NoErr]_vars

\* C3 - re-login invalidates the previous session: once CreateSessionKey(U, D)
\* has put k2 where the row held k1, GetPrivateKeyByID(k1) fails ever after, and
\* GetPrivateKeyByID(k2) succeeds for as long as k2 is U's key.
ReloginInvalidates ==
    \A p \in replaced :
        /\ ~Resolves(p[1])
        /\ InStore(db, p[2]) => Resolves(p[2])

\* C4 - deletion completeness: once DeleteSessionKey(U, K) has returned success,
\* GetPrivateKeyByID(K) fails with a key-not-found error, whatever the indices held.
DeletionComplete ==
    \A k \in deleted : ResolveErr(M, k, now) \in NotFoundErrors

\* a key that was handed out and cached has been deleted, and is looked up in vain
DeletionCompleteWitness ==
    \E k \in deleted : ~InStore(db, k) /\ ResolveErr(M, k, now) = "key not found in consolidated storage"

\* C5 - no empty keyset row: no row holds zero device keys; a user whose last
\* key was deleted has no row, and GetSessionKeys returns the empty list for it.
NoEmptyKeysetRow ==
    \A u \in Users :
        /\ u \in DOMAIN db => db[u] # {}
        /\ u \notin DOMAIN db => GetSessionKeys(M, u, FALSE) = [err |-> NoErr, keyIDs |-> <<>>]

\* a user's only key has been deleted: the row is gone
NoEmptyKeysetRowWitness ==
    \E k \in deleted : OwnerOf(k) \in Users /\ OwnerOf(k) \notin DOMAIN db

\* the last calls of goroutines p and q, both returned
BothReturned(p, q, opP, opQ) ==
    /\ p # q
    /\ procs[p].pc = "idle" /\ procs[q].pc = "idle"
    /\ procs[p].op = opP /\ procs[q].op = opQ
    /\ procs[p].err = NoErr /\ procs[q].err = NoErr
    /\ procs[p].userID = procs[q].userID
    /\ procs[p].deviceType # procs[q].deviceType

\* C6 - no lost update between concurrent logins: when CreateSessionKey(U, D1)
\* and CreateSessionKey(U, D2), D1 # D2, have both returned success, U's row
\* holds both returned key ids.
NoLostUpdate ==
    \A p, q \in Procs :
        BothReturned(p, q, "CreateSessionKey", "CreateSessionKey")
        => InStore(db, procs[p].keyID) /\ InStore(db, procs[q].keyID)

\* C7 - same-user operations are linearized: when DeleteSessionKey(U, K) has
\* returned success and a CreateSessionKey(U, D) for another category has
\* returned too, K is not in U's row.
DeleteCreateLinearized ==
    \A p, q \in Procs :
        BothReturned(p, q, "DeleteSessionKey", "CreateSessionKey")
        => ~InStore(db, procs[p].keyID)

\* C8 - calls for different users are safe in parallel: no two of them are in
\* the shared in-memory indices at once, one writing, without a common lock.
NoUnprotectedAccess ==
    \A p, q \in Procs :
        CallUser(procs[p]) # CallUser(procs[q]) => ~Racing(p, q)

\* C9 - CreateSessionKey is all-or-nothing: when the save fails, the store and
\* the three cache indices are exactly as they were before the call.
CreateAllOrNothing ==
    [][\A u \in Users, d \in Devices, lf \in BOOLEAN :
          CreateSessionKeyCall(u, d, lf, TRUE) => UNCHANGED <<db, cache>>]_vars

\* C10 - cache transparency: whatever the indices hold, GetPrivateKeyByID(K)
\* does what it does with an empty cache: it succeeds exactly when K is in the store.
CacheTransparent ==
    \A k \in KeyIDs :
        /\ Resolves(k) <=> InStore(db, k)
        /\ Resolves(k) <=> ResolveErr([M EXCEPT !.cache = NewOptimizedKeyCache], k, now) = NoErr

\* a CreateSessionKey or DeleteSessionKey call of goroutine g is in progress
Mutating(g) == g.pc # "idle" /\ g.op \in {"CreateSessionKey", "DeleteSessionKey"}

\* C11 - the cache never keeps pointing to deleted material: whenever no
\* CreateSessionKey or DeleteSessionKey call is in progress, every key id held in
\* the parsed-key index or the reverse index is in the store.
CacheNeverStale ==
    (\A p \in Procs : ~Mutating(procs[p]))
    => \A k \in KeyIDs :
          (LRUHas(cache.parsedKeys, k) \/ LRUHas(cache.keyToUser, k)) => InStore(db, k)

\* C12 - key ids are globally unique: two CreateSessionKey calls that both
\* returned success returned different key ids, however close in time they ran.
KeyIDsUnique ==
    \A p, q \in Procs :
        (/\ p # q
         /\ procs[p].pc = "idle" /\ procs[q].pc = "idle"
         /\ procs[p].op = "CreateSessionKey" /\ procs[q].op = "CreateSessionKey"
         /\ procs[p].err = NoErr /\ procs[q].err = NoErr)
        => procs[p].keyID # procs[q].keyID

\* K is not a key of U's keyset: U has no row, or no key of the row carries K
NotAKeyOf(userID, keyID) ==
    \/ userID \notin DOMAIN db
    \/ SlotsOfKeyID(GetUserKeyset(db, userID, FALSE).keyset, keyID) = {}

\* C20 - DeleteSessionKey(U, K) returns an error and changes neither the store
\* nor any index when U has no row or K is not a key of U's keyset, K being
\* another user's key included.
DeleteRejectsCleanly ==
    [][\A u \in Users, k \in HeldKeyIDs, f \in StoreOutcomes :
          (DeleteSessionKeyCall(u, k, f[1], f[2]) /\ NotAKeyOf(u, k))
          => /\ DeleteSessionKey(M, u, k, now, f[1], f[2]).err # NoErr
             /\ UNCHANGED <<db, cache, userKeysets, parsedKeys, keyToUser>>]_vars

\* a user with a row can be asked to delete a cached key of another user
DeleteRejectsCleanlyWitness ==
    \E u \in Users, k \in HeldKeyIDs :
        /\ u \in DOMAIN db /\ NotAKeyOf(u, k)
        /\ InStore(db, k) /\ LRUHas(cache.parsedKeys, k)
        /\ CategoryOf(k) \in DOMAIN GetUserKeyset(db, u, FALSE).keyset.KeyData

\* ---------------------------------------------------------------- tokens
\* A decoded JSON value carries its dynamic type, so that a Go type assertion
\* (x.(string), x.(float64)) can succeed or fail on it.
JString(s) == <<"string", s>>

JNumber(n) == <<"number", n>>

\* the value a type assertion yields
ValueOf(claims, name) == claims[name][2]

\* _, ok := claims[name].(string)
IsString(claims, name) == name \in DOMAIN claims /\ claims[name][1] = "string"

\* _, ok := claims[name].(float64)
IsNumber(claims, name) == name \in DOMAIN claims /\ claims[name][1] = "number"

\* model.User
User(id, username) == [Id |-> id, Username |-> username]

NoUser == User(0, <<>>)

\* model/userauth.go:36-45
NewTokenClaims(user, tokenType, duration, t) ==
    [UserID |-> user.Id, Username |-> user.Username, TokenType |-> tokenType,
     IssuedAt |-> t, ExpiresAt |-> t + duration]

\* model/userauth.go:47-56
NewRefreshTokenClaims(userID, duration, t) ==
    [UserID |-> userID, Username |-> <<>>, TokenType |-> "refresh",
     IssuedAt |-> t, ExpiresAt |-> t + duration]

\* model/userauth.go:58-72: the username goes in for access tokens, and only if not empty
ToMap(tc) ==
    LET claims == [user_id |-> JNumber(tc.UserID), token_type |-> JString(tc.TokenType),
                   iat |-> JNumber(tc.IssuedAt), exp |-> JNumber(tc.ExpiresAt)]
    IN  IF tc.TokenType = "access" /\ tc.Username # <<>>
        THEN MapPut(claims, "username", JString(tc.Username))
        ELSE claims

\* a compact JWS: the payload and the RSA material that made the signature
Token(payload, material) == [payload |-> payload, signedBy |-> material]

NoToken == Token(EmptyMap, 0)

\* jwt.Sign(token, jwt.WithKey(jwa.RS256(), privateKey))
Sign(payload, key) == Token(payload, key.material)

\* part_004:48-67: the caller's claims, then iat, exp and kid over them
tokenClaims(claims, keyID, duration, t) ==
    MapPut(MapPut(MapPut(claims, "iat", JNumber(t)), "exp", JNumber(t + duration)),
           "kid", JString(keyID))

\* the value of f at v, v being evaluated once
With(v, f(_)) == CHOOSE r \in {f(x) : x \in {v}} : TRUE

\* part_004:44-81: [m, err, token]
generateTokenWithKeyIDAndDuration(m, claims, keyID, duration, t, loadFail, findFail) ==
    With(GetPrivateKeyByID(m, keyID, t, loadFail, findFail), LAMBDA k :
        IF k.err # NoErr THEN [m |-> k.m, err |-> "failed to get signing key", token |-> NoToken]
        ELSE [m |-> k.m, err |-> NoErr, token |-> Sign(tokenClaims(claims, keyID, duration, t), k.key)])

\* part_004:36-38
GenerateAccessTokenWithKeyID(m, claims, keyID, t, loadFail, findFail) ==
    generateTokenWithKeyIDAndDuration(m, claims, keyID, AccessTokenDuration, t, loadFail, findFail)

\* part_004:40-42
GenerateRefreshTokenWithKeyID(m, claims, keyID, t, loadFail, findFail) ==
    generateTokenWithKeyIDAndDuration(m, claims, keyID, RefreshTokenDuration, t, loadFail, findFail)

\* part_005:326-335: [m, err, key]
GetPublicKeyBy(m, keyID, t, loadFail, findFail) ==
    With(GetPrivateKeyByID(m, keyID, t, loadFail, findFail), LAMBDA r :
        [m |-> r.m, err |-> IF r.err # NoErr THEN "failed to get private key" ELSE NoErr, key |-> r.key])

\* what a call that does not return leaves in place of its error: the failed
\* type assertion of part_004:97 panics
Panic == "panic: interface conversion"

\* part_004:98-108, the kid being a string
verifySignature(m, token, t, loadFail, findFail) ==
    With(GetPublicKeyBy(m, ValueOf(token.payload, "kid"), t, loadFail, findFail), LAMBDA publicKey :
        IF publicKey.err # NoErr THEN [m |-> publicKey.m, err |-> publicKey.err, claims |-> EmptyMap]
        ELSE IF token.signedBy # publicKey.key.material
             THEN [m |-> publicKey.m, err |-> "failed to verify token signature", claims |-> EmptyMap]
             ELSE [m |-> publicKey.m, err |-> NoErr, claims |-> token.payload])

\* part_004:83-109: [m, err, claims].  jws.Parse and json.Unmarshal succeed on
\* every Token; jwt.Parse is the check of the signature against the key.
VerifyTokenSignatureAndGetClaims(m, token, t, loadFail, findFail) ==
    IF ~IsString(token.payload, "kid") THEN [m |-> m, err |-> Panic, claims |-> EmptyMap]
    ELSE verifySignature(m, token, t, loadFail, findFail)

\* part_004:111-132: [err, kid]
ExtractKeyIDFromToken(token) ==
    IF IsString(token.payload, "kid") THEN [err |-> NoErr, kid |-> ValueOf(token.payload, "kid")]
    ELSE [err |-> "key ID not found in token", kid |-> <<>>]

\* auth.go:135-146: the username of the returned user
usernameOf(claims) == IF IsString(claims, "username") THEN ValueOf(claims, "username") ELSE <<>>

\* auth.go:111-115
typeError(claims, expectedType) ==
    ~IsString(claims, "token_type") \/ ValueOf(claims, "token_type") # expectedType

\* auth.go:117-125
expiryError(claims, t) ==
    IF ~IsNumber(claims, "exp") THEN "missing or invalid expiration claim"
    ELSE IF t > ValueOf(claims, "exp") THEN "token has expired"
    ELSE NoErr

\* auth.go:127-151
userOrError(m, claims, expectedType) ==
    IF ~IsNumber(claims, "user_id")
    THEN [m |-> m, err |-> "missing or invalid user_id claim", user |-> NoUser]
    ELSE IF expectedType = "access" /\ ~IsString(claims, "username")
    THEN [m |-> m, err |-> "missing or invalid username claim for access token", user |-> NoUser]
    ELSE [m |-> m, err |-> NoErr, user |-> User(ValueOf(claims, "user_id"), usernameOf(claims))]

\* a verification that takes the token whatever its type says
verifyTokenAnyType(m, token, expectedType, t, loadFail, findFail) ==
    With(VerifyTokenSignatureAndGetClaims(m, token, t, loadFail, findFail), LAMBDA v :
        IF v.err = Panic THEN [m |-> v.m, err |-> Panic, user |-> NoUser]
        ELSE IF v.err # NoErr THEN [m |-> v.m, err |-> "failed to verify token signature", user |-> NoUser]
        ELSE IF expiryError(v.claims, t) # NoErr
             THEN [m |-> v.m, err |-> expiryError(v.claims, t), user |-> NoUser]
        ELSE userOrError(v.m, v.claims, expectedType))

\* a verification that never looks at exp
verifyTokenNoExpiry(m, token, expectedType, t, loadFail, findFail) ==
    With(VerifyTokenSignatureAndGetClaims(m, token, t, loadFail, findFail), LAMBDA v :
        IF v.err = Panic THEN [m |-> v.m, err |-> Panic, user |-> NoUser]
        ELSE IF v.err # NoErr THEN [m |-> v.m, err |-> "failed to verify token signature", user |-> NoUser]
        ELSE IF typeError(v.claims, expectedType)
             THEN [m |-> v.m, err |-> "invalid token type", user |-> NoUser]
        ELSE userOrError(v.m, v.claims, expectedType))

\* auth.go:105-152: [m, err, user].  A panic of the signature check passes through.
verifyTokenWithType(m, token, expectedType, t, loadFail, findFail) ==
    With(VerifyTokenSignatureAndGetClaims(m, token, t, loadFail, findFail), LAMBDA v :
        IF v.err = Panic THEN [m |-> v.m, err |-> Panic, user |-> NoUser]
        ELSE IF v.err # NoErr THEN [m |-> v.m, err |-> "failed to verify token signature", user |-> NoUser]
        ELSE IF typeError(v.claims, expectedType)
             THEN [m |-> v.m, err |-> "invalid token type", user |-> NoUser]
        ELSE IF expiryError(v.claims, t) # NoErr
             THEN [m |-> v.m, err |-> expiryError(v.claims, t), user |-> NoUser]
        ELSE userOrError(v.m, v.claims, expectedType))

\* auth.go:97-99
VerifyToken(m, token, t, loadFail, findFail) ==
    verifyTokenWithType(m, token, "access", t, loadFail, findFail)

\* auth.go:101-103
VerifyRefreshToken(m, token, t, loadFail, findFail) ==
    verifyTokenWithType(m, token, "refresh", t, loadFail, findFail)

\* what a call that issues no tokens returns
NoTokenPair(m, err) ==
    [m |-> m, err |-> err, keyID |-> <<>>, AccessToken |-> NoToken, RefreshToken |-> NoToken,
     TokenType |-> "", ExpiresIn |-> 0]

\* internal/config/config.go:16-20, the durations a service is configured with
JWTConfig(access, refresh) == [AccessTokenDuration |-> access, RefreshTokenDuration |-> refresh]

\* config.go:32-36, with no variable of the environment set
LoadConfig == JWTConfig(AccessTokenDuration, RefreshTokenDuration)

\* auth.go:45-66, a.config being cfg:
\* [m, err, keyID, AccessToken, RefreshToken, TokenType, ExpiresIn]
GenerateTokenPairWithConfig(cfg, m, user, keyID, t, loadFail, findFail) ==
    With(GenerateAccessTokenWithKeyID(
             m, ToMap(NewTokenClaims(user, "access", cfg.AccessTokenDuration, t)),
             keyID, t, loadFail, findFail), LAMBDA a :
        IF a.err # NoErr THEN NoTokenPair(a.m, "failed to generate access token")
        ELSE With(GenerateRefreshTokenWithKeyID(
                      a.m, ToMap(NewRefreshTokenClaims(user.Id, cfg.RefreshTokenDuration, t)),
                      keyID, t, loadFail, findFail), LAMBDA r :
                 IF r.err # NoErr THEN NoTokenPair(r.m, "failed to generate refresh token")
                 ELSE [m |-> r.m, err |-> NoErr, keyID |-> keyID,
                       AccessToken |-> a.token, RefreshToken |-> r.token,
                       TokenType |-> "Bearer", ExpiresIn |-> cfg.AccessTokenDuration]))

\* the same, of the service with the default configuration
GenerateTokenPairWithKeyID(m, user, keyID, t, loadFail, findFail) ==
    GenerateTokenPairWithConfig(LoadConfig, m, user, keyID, t, loadFail, findFail)

\* the token is the separator; a number is written in digits, which are none
IsHyphen(token) == ToString(token) = ToString("-")

\* strings.Split(s, "-"), on a string of tokens
RECURSIVE Split(_)
Split(s) ==
    IF \A i \in 1..Len(s) : ~IsHyphen(s[i]) THEN <<s>>
    ELSE LET i == CHOOSE j \in 1..Len(s) : IsHyphen(s[j]) /\ \A h \in 1..(j - 1) : ~IsHyphen(s[h])
         IN  <<SubSeq(s, 1, i - 1)>> \o Split(SubSeq(s, i + 1, Len(s)))

\* auth.go:159-168: [err, deviceType]
extractDeviceTypeFromKeyID(keyID) ==
    LET parts == Split(keyID) IN
    IF Len(parts) < 3 THEN [err |-> "invalid keyID format", deviceType |-> <<>>]
    ELSE [err |-> NoErr, deviceType |-> parts[1]]

\* auth.go:81-94: the new key is stamped at t, and the pair is generated when
\* CreateSessionKey has returned
refreshCreate(m, userID, username, deviceType, t, loadFail, saveFail) ==
    With(CreateSessionKey(m, userID, deviceType, NewKey(KeyIDFormat(deviceType, userID, t), t),
                          t, loadFail, saveFail), LAMBDA c :
        IF c.err # NoErr THEN NoTokenPair(c.m, "failed to create new session key")
        ELSE GenerateTokenPairWithKeyID(c.m, User(userID, username), c.keyID, t + 1, FALSE, FALSE))

\* auth.go:68-95: [m, err, keyID, AccessToken, RefreshToken]
RefreshTokensWithKeyID(m, refreshToken, username, keyID, t, loadFail, saveFail) ==
    With(VerifyRefreshToken(m, refreshToken, t, FALSE, FALSE), LAMBDA v :
        IF v.err = Panic THEN NoTokenPair(v.m, Panic)
        ELSE IF v.err # NoErr THEN NoTokenPair(v.m, "invalid refresh token")
        ELSE IF extractDeviceTypeFromKeyID(keyID).err # NoErr
             THEN NoTokenPair(v.m, "failed to extract device type from keyID")
        ELSE refreshCreate(v.m, v.user.Id, username, extractDeviceTypeFromKeyID(keyID).deviceType,
                           t, loadFail, saveFail))

\* ---------------------------------------------------------------- the auth service, one call at a time
\* SpecAuth runs the calls of the auth service among the calls of the manager.
\* A device type is any string: one of these has a hyphen in it.
DeviceTypes == {<<"web">>, <<"smart", "-", "tv">>}

\* the device types RefreshTokensWithKeyID reads out of key ids
ExtractedDeviceTypes ==
    {extractDeviceTypeFromKeyID(KeyIDFormat(d, 0, 0)).deviceType : d \in DeviceTypes}

Usernames == {<<>>, <<"alice">>}

AuthKeyIDs ==
    {KeyIDFormat(d, u, t) : d \in DeviceTypes \cup ExtractedDeviceTypes, u \in Users, t \in 0..MaxTime}

\* the key ids in the store or in an index
KnownKeyIDs ==
    {k \in AuthKeyIDs : \/ InStore(db, k)
                        \/ LRUHas(cache.parsedKeys, k) \/ LRUHas(cache.keyToUser, k)
                        \/ k \in DOMAIN keyToUser}

\* the key ids a caller can hold: the known ones and a stranger
AuthHeldKeyIDs == KnownKeyIDs \cup {KeyIDFormat(<<"web">>, 0, 0)}

\* the instant a key id was stamped at, which names the key's material
StampOf(keyID) == keyID[Len(keyID)]

\* The tokens the service can have signed for the owner of a known key, at
\* any instant since the key was made.
IssuedAccessTokens ==
    UNION {{Token(tokenClaims(ToMap(NewTokenClaims(User(OwnerOf(k), n), "access",
                                                   AccessTokenDuration, t)),
                              k, AccessTokenDuration, t), StampOf(k)) :
               n \in Usernames, t \in StampOf(k)..now} : k \in KnownKeyIDs}

IssuedRefreshTokens ==
    UNION {{Token(tokenClaims(ToMap(NewRefreshTokenClaims(OwnerOf(k), RefreshTokenDuration, t)),
                              k, RefreshTokenDuration, t), StampOf(k)) :
               t \in StampOf(k)..now} : k \in KnownKeyIDs}

\* tokens nobody issued: without kid, with a kid that is a number, with an
\* empty kid, and with a signature no key of the service made
StrangeTokens ==
    LET claims == ToMap(NewTokenClaims(User(1, <<"alice">>), "access", AccessTokenDuration, 0))
        payload == tokenClaims(claims, KeyIDFormat(<<"web">>, 1, 0), AccessTokenDuration, 0)
    IN  {Token(MapDelete(payload, "kid"), 0),
         Token(MapPut(payload, "kid", JNumber(1)), 0),
         Token(MapPut(payload, "kid", JString(<<>>)), 0),
         Token(payload, 0 - 1)}

Tokens == IssuedAccessTokens \cup IssuedRefreshTokens \cup StrangeTokens

GenerateTokenPairWithKeyIDCall(userID, username, keyID, loadFail, findFail) ==
    /\ \E r \in {GenerateTokenPairWithKeyID(M, User(userID, username), keyID, now, loadFail, findFail)} :
           Becomes(r.m)
    /\ UNCHANGED <<now, deleted, replaced, procs, calls, lru, recency, lastPut, gone, core, issued, metrics, evicted, cleaner, storage, gor, mutex>>

\* a panic leaves the manager as it was
VerifyTokenCall(token, loadFail, findFail) ==
    /\ \E r \in {VerifyToken(M, token, now, loadFail, findFail)} : Becomes(r.m)
    /\ UNCHANGED <<now, deleted, replaced, procs, calls, lru, recency, lastPut, gone, core, issued, metrics, evicted, cleaner, storage, gor, mutex>>

VerifyRefreshTokenCall(token, loadFail, findFail) ==
    /\ \E r \in {VerifyRefreshToken(M, token, now, loadFail, findFail)} : Becomes(r.m)
    /\ UNCHANGED <<now, deleted, replaced, procs, calls, lru, recency, lastPut, gone, core, issued, metrics, evicted, cleaner, storage, gor, mutex>>

\* The clock advances when the call has come to CreateSessionKey.  The call may
\* start at the last instant, and the clock then stops one tick after it.
RefreshTokensWithKeyIDCall(refreshToken, username, keyID, loadFail, saveFail) ==
    /\ now <= MaxTime
    /\ \E r \in {RefreshTokensWithKeyID(M, refreshToken, username, keyID, now, loadFail, saveFail)} :
           /\ Becomes(r.m)
           /\ now' = IF r.err \in {NoErr, "failed to create new session key"} THEN now + 1 ELSE now
           /\ replaced' = IF r.err = NoErr
                          THEN replaced \cup {<<k, r.keyID>> :
                                   k \in StoredKeyIDs(db, OwnerOf(r.keyID), CategoryOf(r.keyID))}
                          ELSE replaced
    /\ UNCHANGED <<deleted, procs, calls, lru, recency, lastPut, gone, core, issued, metrics, evicted, cleaner, storage, gor, mutex>>

\* a key id that is none: it has no hyphen
KeyIDArguments == AuthHeldKeyIDs \cup {<<"web">>}

\* no call starts once the clock has passed the last instant
Running == now <= MaxTime

\* The calls of the auth service, and the calls of the manager that change the
\* store.  RefreshTokensWithKeyID is given a refresh token or a strange one (an
\* access token goes the way it goes in VerifyRefreshToken), and what username
\* its caller passes goes into the returned tokens only.
NextAuth ==
    \/ \E u \in Users, d \in DeviceTypes, lf, sf \in BOOLEAN : CreateSessionKeyCall(u, d, lf, sf)
    \/ \E u \in Users, k \in AuthHeldKeyIDs, f \in StoreOutcomes :
           Running /\ DeleteSessionKeyCall(u, k, f[1], f[2])
    \/ Tick
    \/ \E u \in Users, n \in Usernames, k \in AuthHeldKeyIDs, lf, ff \in BOOLEAN :
           Running /\ GenerateTokenPairWithKeyIDCall(u, n, k, lf, ff)
    \/ \E tok \in Tokens, lf, ff \in BOOLEAN : Running /\ VerifyTokenCall(tok, lf, ff)
    \/ \E tok \in Tokens, lf, ff \in BOOLEAN : Running /\ VerifyRefreshTokenCall(tok, lf, ff)
    \/ \E tok \in IssuedRefreshTokens \cup StrangeTokens, k \in KeyIDArguments, f \in StoreOutcomes :
           RefreshTokensWithKeyIDCall(tok, <<"alice">>, k, f[1], f[2])

SpecAuth == Init /\ [][NextAuth]_vars

\* ---------------------------------------------------------------- properties of the auth service
\* the key id a token names, as refreshTokensInteractive reads it (internal/jwt.go:393)
KidOf(token) == ExtractKeyIDFromToken(token).kid

\* the user a token names
UserIDOf(token) == ValueOf(token.payload, "user_id")

\* exp lies before the current time
ExpiredNow(token) == IsNumber(token.payload, "exp") /\ ValueOf(token.payload, "exp") < now

\* the signature is valid and the key resolves
GoodSignature(token) ==
    /\ IsString(token.payload, "kid")
    /\ VerifyTokenSignatureAndGetClaims(M, token, now, FALSE, FALSE).err = NoErr

\* C13 - After RefreshTokensWithKeyID has succeeded for a refresh token signed
\* under key K, called with the key id read from that token, K does not resolve,
\* and VerifyRefreshToken and a second RefreshTokensWithKeyID fail on the token.
RefreshRotates ==
    [][\A tok \in IssuedRefreshTokens, n \in Usernames, f \in StoreOutcomes :
          (/\ RefreshTokensWithKeyIDCall(tok, n, KidOf(tok), f[1], f[2])
           /\ RefreshTokensWithKeyID(M, tok, n, KidOf(tok), now, f[1], f[2]).err = NoErr)
          => /\ ResolveErr(M', KidOf(tok), now') # NoErr
             /\ VerifyRefreshToken(M', tok, now', FALSE, FALSE).err # NoErr
             /\ RefreshTokensWithKeyID(M', tok, n, KidOf(tok), now', FALSE, FALSE).err # NoErr]_vars

\* C14 - Whatever keyID argument the caller passes, RefreshTokensWithKeyID takes
\* out of the store no key of a category other than that of the key that signed
\* the refresh token, and no key of a user other than the token's.
RefreshOneCategory ==
    [][\A tok \in IssuedRefreshTokens, n \in Usernames, keyID \in KeyIDArguments, f \in StoreOutcomes :
          RefreshTokensWithKeyIDCall(tok, n, keyID, f[1], f[2])
          => \A k \in AuthKeyIDs :
                (InStore(db, k) /\ ~InStore(db', k))
                => OwnerOf(k) = UserIDOf(tok) /\ CategoryOf(k) = CategoryOf(KidOf(tok))]_vars

\* C15 - extractDeviceTypeFromKeyID gives back D from the key id that
\* CreateSessionKey(U, D) returns, for every device type D.
DeviceTypeReadsBack ==
    [][\A u \in Users, d \in DeviceTypes, lf, sf \in BOOLEAN :
          (/\ CreateSessionKeyCall(u, d, lf, sf)
           /\ CreateSessionKey(M, u, d, KeyMadeAt(u, d, now), now, lf, sf).err = NoErr)
          => extractDeviceTypeFromKeyID(
                 CreateSessionKey(M, u, d, KeyMadeAt(u, d, now), now, lf, sf).keyID)
             = [err |-> NoErr, deviceType |-> d]]_vars

\* C16 - VerifyToken returns a user only for a token whose token_type is
\* "access", VerifyRefreshToken only for one whose token_type is "refresh".
TokenTypesNotInterchangeable ==
    \A tok \in Tokens, lf, ff \in BOOLEAN :
        /\ VerifyToken(M, tok, now, lf, ff).err = NoErr
           => ~typeError(tok.payload, "access")
        /\ VerifyRefreshToken(M, tok, now, lf, ff).err = NoErr
           => ~typeError(tok.payload, "refresh")

\* a refresh token and an access token, each good for its own verification,
\* are turned down by the other for their type
TokenTypesNotInterchangeableWitness ==
    /\ \E tok \in IssuedRefreshTokens :
           /\ VerifyRefreshToken(M, tok, now, FALSE, FALSE).err = NoErr
           /\ VerifyToken(M, tok, now, FALSE, FALSE).err = "invalid token type"
    /\ \E tok \in IssuedAccessTokens :
           /\ VerifyToken(M, tok, now, FALSE, FALSE).err = NoErr
           /\ VerifyRefreshToken(M, tok, now, FALSE, FALSE).err = "invalid token type"

NoKidFailsCleanly ==
    \A tok \in Tokens, lf, ff \in BOOLEAN :
        (~IsString(tok.payload, "kid") \/ KidOf(tok) = <<>>)
        => /\ VerifyTokenSignatureAndGetClaims(M, tok, now, lf, ff).err \notin {NoErr, Panic}
           /\ VerifyTokenSignatureAndGetClaims(M, tok, now, lf, ff).claims = EmptyMap

\* C19 - For every user (id, username) and every key id k of that user in the
\* store, VerifyToken gives back (id, username) from the access token that
\* GenerateTokenPairWithKeyID(user, k) has just issued.
LoginVerifyRoundTrip ==
    \A k \in KnownKeyIDs, n \in Usernames :
        InStore(db, k)
        => /\ GenerateTokenPairWithKeyID(M, User(OwnerOf(k), n), k, now, FALSE, FALSE).err = NoErr
           /\ \A g \in {GenerateTokenPairWithKeyID(M, User(OwnerOf(k), n), k, now, FALSE, FALSE)} :
                  /\ VerifyToken(g.m, g.AccessToken, now, FALSE, FALSE).err = NoErr
                  /\ VerifyToken(g.m, g.AccessToken, now, FALSE, FALSE).user = User(OwnerOf(k), n)

\* ---------------------------------------------------------------- properties, continued
\* the elements of a list
Elements(list) == {list[i] : i \in 1..Len(list)}

\* the key ids of the keys in the row of userID
DurableKeyIDs(table, userID) == {k \in KeyIDs : OwnerOf(k) = userID /\ InStore(table, k)}

\* C21 - GetSessionKeys(U) returns the empty list and no error when U has no
\* row, and otherwise the key ids of U's row, each once; when the store fails
\* it returns an error and no list.
SessionKeysExact ==
    \A u \in Users :
        /\ GetSessionKeys(M, u, FALSE).err = NoErr
        /\ u \notin DOMAIN db => GetSessionKeys(M, u, FALSE).keyIDs = <<>>
        /\ Elements(GetSessionKeys(M, u, FALSE).keyIDs) = DurableKeyIDs(db, u)
        /\ Len(GetSessionKeys(M, u, FALSE).keyIDs) = Cardinality(DurableKeyIDs(db, u))
        /\ GetSessionKeys(M, u, TRUE).err # NoErr
        /\ GetSessionKeys(M, u, TRUE).keyIDs = <<>>

\* one user has no row, another one a row of two keys
SessionKeysExactWitness ==
    \E u, v \in Users :
        /\ u \notin DOMAIN db
        /\ Len(GetSessionKeys(M, v, FALSE).keyIDs) = 2

\* the stored form of the key of userID for deviceType, <<>> when there is none
StoredKey(table, userID, deviceType) ==
    IF userID \in DOMAIN table /\ deviceType \in DOMAIN UnmarshalKeyData(table[userID])
    THEN UnmarshalKeyData(table[userID])[deviceType]
    ELSE <<>>

\* C22 - selective logout: a successful DeleteSessionKey(U, K) removes K and
\* nothing else: every other key of U's row stays in the row under its key id
\* and still resolves by GetPrivateKeyByID, and the row of every other user
\* is what it was.
SelectiveLogout ==
    [][\A u \in Users, k \in HeldKeyIDs :
          (/\ DeleteSessionKeyCall(u, k, FALSE, FALSE)
           /\ DeleteSessionKey(M, u, k, now, FALSE, FALSE).err = NoErr)
          => /\ DurableKeyIDs(db', u) = DurableKeyIDs(db, u) \ {k}
             /\ \A d \in Devices :
                    k \notin StoredKeyIDs(db, u, d) => StoredKey(db', u, d) = StoredKey(db, u, d)
             /\ \A k2 \in DurableKeyIDs(db, u) \ {k} : ResolveErr(M', k2, now') = NoErr
             /\ \A v \in Users \ {u} :
                    /\ v \in DOMAIN db' <=> v \in DOMAIN db
                    /\ v \in DOMAIN db => db'[v] = db[v]]_vars

\* a key has been deleted while its user keeps another one, which resolves
SelectiveLogoutWitness ==
    \E k \in deleted, k2 \in KeyIDs :
        /\ k2 # k
        /\ OwnerOf(k2) = OwnerOf(k)
        /\ InStore(db, k2)
        /\ ~InStore(db, k)
        /\ Resolves(k2)

\* ---------------------------------------------------------------- logout from all devices
\* internal/jwt.go, lines 347-349: DeleteSessionKey for each listed key id in
\* turn, whatever the calls return.  faults[i] is the outcome of the store
\* calls of the i-th delete.  [m, deleted]
RECURSIVE deleteSessions(_, _, _, _, _)
deleteSessions(m, userID, sessions, t, faults) ==
    IF sessions = <<>> THEN [m |-> m, deleted |-> {}]
    ELSE \* the head's delete, then the rest on what it left
         LET r == DeleteSessionKey(m, userID, Head(sessions), t, Head(faults)[1], Head(faults)[2])
             rest == deleteSessions(r.m, userID, Tail(sessions), t, Tail(faults))
         IN  [m |-> rest.m,
              deleted |-> rest.deleted \cup (IF r.err = NoErr THEN {Head(sessions)} ELSE {})]

\* logoutAllDevicesInteractive, the user confirming: prime the cache, list
\* the sessions, delete each.  [m, deleted]
logoutAllDevicesInteractive(m, userID, t, order, primeFail, listFail, faults) ==
    LET primed == LoadUserKeysFromDB(m, userID, t, order, primeFail).m
        sessions == GetSessionKeys(primed, userID, listFail)
    IN  IF sessions.err # NoErr \/ sessions.keyIDs = <<>>
        THEN [m |-> primed, deleted |-> {}]
        ELSE deleteSessions(primed, userID, sessions.keyIDs, t, faults)

\* the outcomes of the store calls of the deletes of one logout
LogoutFaults == [1..Cardinality(Devices) -> StoreOutcomes]

LogoutAllDevicesCall(userID, primeFail, listFail, faults) ==
    /\ \E order \in RangeOrders(GetUserKeyset(db, userID, primeFail).keyset.KeyData) :
       \E r \in {logoutAllDevicesInteractive(M, userID, now, order, primeFail, listFail, faults)} :
           /\ Becomes(r.m)
           /\ deleted' = deleted \cup r.deleted
    /\ UNCHANGED <<now, replaced, procs, calls, lru, recency, lastPut, gone, core, issued, metrics, evicted, cleaner, storage, gor, mutex>>

\* the manager's calls one at a time, and the menu's logout from all devices
NextMenu ==
    \/ Next
    \/ \E u \in Users, pf, lf \in BOOLEAN, faults \in LogoutFaults :
           LogoutAllDevicesCall(u, pf, lf, faults)

SpecMenu == Init /\ [][NextMenu]_vars

\* C23 - logout from all devices: when DeleteSessionKey(U, k) has been called
\* for every key id k that GetSessionKeys(U) returned, with no login of U in
\* between, GetSessionKeys(U) returns the empty list, U has no row and none of
\* the listed key ids resolves by GetPrivateKeyByID.
LogoutAllComplete ==
    [][\A u \in Users, pf \in BOOLEAN, faults \in LogoutFaults :
          (/\ LogoutAllDevicesCall(u, pf, FALSE, faults)
           /\ GetSessionKeys(M, u, FALSE).keyIDs # <<>>)
          => /\ GetSessionKeys(M', u, FALSE) = [err |-> NoErr, keyIDs |-> <<>>]
             /\ u \notin DOMAIN db'
             /\ \A k \in Elements(GetSessionKeys(M, u, FALSE).keyIDs) :
                    ResolveErr(M', k, now') # NoErr]_vars

\* the key ids the indexes hold for userID: a parsed key or a reverse-index
\* entry, in the cache or in the maps beside it
IndexedKeyIDs(m, userID) ==
    {k \in KeyIDs : /\ OwnerOf(k) = userID
                    /\ \/ LRUHas(m.cache.parsedKeys, k) \/ LRUHas(m.cache.keyToUser, k)
                       \/ k \in DOMAIN m.parsedKeys \/ k \in DOMAIN m.keyToUser}

\* the key ids of the keysets the indexes hold for userID
IndexedKeysetKeyIDs(m, userID) ==
    (IF LRUHas(m.cache.userKeysets, formatUserKeysetKey(userID))
     THEN Elements(KeyIDsOf(m.cache.userKeysets[LRUIndex(m.cache.userKeysets, formatUserKeysetKey(userID))].value.KeyData,
                            DOMAIN m.cache.userKeysets[LRUIndex(m.cache.userKeysets, formatUserKeysetKey(userID))].value.KeyData))
     ELSE {})
    \cup (IF userID \in DOMAIN m.userKeysets
          THEN Elements(KeyIDsOf(m.userKeysets[userID].KeyData, DOMAIN m.userKeysets[userID].KeyData))
          ELSE {})

\* C24 - cache priming removes stale entries: when LoadUserKeysFromDB(U) has
\* returned without error, the indexes hold no parsed key, reverse-index entry
\* or keyset entry of U that U's row does not hold, also when U has no row,
\* and they hold a parsed key and a reverse-index entry for every key of the row.
PrimingRemovesStale ==
    [][\A u \in Users :
          LoadUserKeysFromDBCall(u, FALSE)
          => /\ IndexedKeyIDs(M', u) \subseteq DurableKeyIDs(db', u)
             /\ IndexedKeysetKeyIDs(M', u) \subseteq DurableKeyIDs(db', u)
             /\ \A k \in DurableKeyIDs(db', u) :
                    LRUHas(cache'.parsedKeys, k) /\ LRUHas(cache'.keyToUser, k)]_vars

\* ---------------------------------------------------------------- one LRUCache, used on its own
\* Every method holds c.mutex from its first statement to its return, so
\* concurrent calls take effect one whole call after the other, in any order.
LRUCapacity == 2

LRUKeys == 1..(LRUCapacity + 1)

\* The stored value plays no part in the order, the size or the expiry of
\* the items, so one value stands for all of them.
LRUValues == {"v"}

KeysIn(c) == {c[i].key : i \in 1..Len(c)}

ItemOf(c, key) == c[LRUIndex(c, key)]

\* history: key has just been used
Used(list, key) == <<key>> \o SelectSeq(list, LAMBDA k : k # key)

LRUPutCall(key, value) ==
    /\ lru' = LRUPut(lru, key, value, now, LRUCapacity)
    /\ recency' = Used(recency, key)
    /\ lastPut' = MapPut(lastPut, key, now)
    /\ gone' = [k \in ((DOMAIN gone) \ {key}) \cup (KeysIn(lru) \ KeysIn(lru')) |->
                   IF k \in KeysIn(lru) THEN "evicted" ELSE gone[k]]
    /\ UNCHANGED <<db, cache, userKeysets, parsedKeys, keyToUser, now, deleted, replaced, procs, calls, core, issued, metrics, evicted, cleaner, storage, gor, mutex>>

LRUGetCall(key) ==
    /\ lru' = LRUGet(lru, key, now).cache
    /\ recency' = IF LRUGet(lru, key, now).hit THEN Used(recency, key) ELSE recency
    /\ UNCHANGED <<db, cache, userKeysets, parsedKeys, keyToUser, now, deleted, replaced, procs, calls,
                   lastPut, gone, core, issued, metrics, evicted, cleaner, storage, gor, mutex>>

LRURemoveCall(key) ==
    /\ lru' = LRURemove(lru, key)
    /\ gone' = IF key \in DOMAIN lastPut THEN MapPut(gone, key, "removed") ELSE gone
    /\ UNCHANGED <<db, cache, userKeysets, parsedKeys, keyToUser, now, deleted, replaced, procs, calls,
                   recency, lastPut, core, issued, metrics, evicted, cleaner, storage, gor, mutex>>

LRUClearCall ==
    /\ lru' = LRUClear
    /\ gone' = [k \in DOMAIN lastPut |-> "removed"]
    /\ UNCHANGED <<db, cache, userKeysets, parsedKeys, keyToUser, now, deleted, replaced, procs, calls,
                   recency, lastPut, core, issued, metrics, evicted, cleaner, storage, gor, mutex>>

LRUSizeCall ==
    /\ LRUSize(lru) \in 0..Len(lru)
    /\ UNCHANGED vars

LRUCleanupExpiredCall ==
    /\ lru' = LRUCleanupExpired(lru, now).cache
    /\ UNCHANGED <<db, cache, userKeysets, parsedKeys, keyToUser, now, deleted, replaced, procs, calls,
                   recency, lastPut, gone, core, issued, metrics, evicted, cleaner, storage, gor, mutex>>

NextLRU ==
    \/ \E k \in LRUKeys, v \in LRUValues : LRUPutCall(k, v)
    \/ \E k \in LRUKeys : LRUGetCall(k)
    \/ \E k \in LRUKeys : LRURemoveCall(k)
    \/ LRUClearCall
    \/ LRUSizeCall
    \/ LRUCleanupExpiredCall
    \/ Tick

SpecLRU == Init /\ [][NextLRU]_vars

\* where key stands in the history of uses: 1 is the latest
RecencyRank(key) == CHOOSE i \in 1..Len(recency) : recency[i] = key

\* the entry whose last successful Get or Put is the oldest
LeastRecentlyUsed(c) ==
    CHOOSE x \in KeysIn(c) : \A y \in KeysIn(c) : RecencyRank(y) <= RecencyRank(x)

\* C25 - strict LRU eviction: when the Put of a new key makes the cache
\* exceed its capacity, the one entry that leaves is the entry whose last
\* successful Get or Put is the oldest, and every other entry stays as it was.
StrictLRUEviction ==
    [][\A k \in LRUKeys, v \in LRUValues :
          (LRUPutCall(k, v) /\ ~LRUHas(lru, k) /\ Len(lru) = LRUCapacity)
          => /\ KeysIn(lru') = (KeysIn(lru) \ {LeastRecentlyUsed(lru)}) \cup {k}
             /\ \A y \in KeysIn(lru) \ {LeastRecentlyUsed(lru)} : ItemOf(lru', y) = ItemOf(lru, y)]_vars

\* an entry has been evicted while an entry that was put before it stays,
\* having been used since
StrictLRUEvictionWitness ==
    \E x \in KeysIn(lru), y \in DOMAIN gone :
        /\ gone[y] = "evicted"
        /\ lastPut[x] < lastPut[y]
        /\ Len(lru) = LRUCapacity

\* C26 - capacity bound: whatever Put, Get, Remove, Clear and CleanupExpired
\* calls have taken effect, in whatever order, the cache holds at most its
\* capacity of entries, and a Put of a key it holds leaves the number of
\* entries as it was.
CapacityBound ==
    /\ LRUSize(lru) <= LRUCapacity
    /\ [][/\ LRUSize(lru') <= LRUCapacity
          /\ \A k \in LRUKeys, v \in LRUValues :
                 (LRUPutCall(k, v) /\ LRUHas(lru, k)) => LRUSize(lru') = LRUSize(lru)]_vars

\* the cache is full, an entry has been evicted for it, and a key it holds
\* was put while another was already there
CapacityBoundWitness ==
    /\ LRUSize(lru) = LRUCapacity
    /\ \E y \in DOMAIN gone : gone[y] = "evicted"
    /\ \E x, z \in KeysIn(lru) : ItemOf(lru, x).timestamp < ItemOf(lru, z).timestamp

\* C27 - TTL expiry on read: in every state, Get hits exactly when the key's
\* last Put is at most the TTL ago and the key has not been removed or evicted since; a Get
\* on an entry older than the TTL is a miss and removes the entry; a hit
\* leaves the entry's timestamp at its last Put.
TTLExpiryOnRead ==
    /\ [](\A k \in LRUKeys :
              LRUGet(lru, k, now).hit
                  <=> (k \in DOMAIN lastPut /\ k \notin DOMAIN gone /\ now - lastPut[k] <= CacheTTL))
    /\ [][\A k \in LRUKeys :
              LRUGetCall(k)
              => /\ (LRUHas(lru, k) /\ now - ItemOf(lru, k).timestamp > CacheTTL)
                        => (~LRUGet(lru, k, now).hit /\ ~LRUHas(lru', k))
                 /\ LRUGet(lru, k, now).hit
                        => (LRUHas(lru', k) /\ ItemOf(lru', k).timestamp = lastPut[k])]_vars

\* an entry stands in front of one that was put after it, a Get having hit
\* it, and a third one has left the cache for its age alone
TTLExpiryOnReadWitness ==
    /\ \E x, z \in KeysIn(lru) :
           /\ lru[1].key = x
           /\ lastPut[x] < lastPut[z]
           /\ now - lastPut[x] = CacheTTL
    /\ \E y \in (DOMAIN lastPut) \ (DOMAIN gone) : ~LRUHas(lru, y)

\* C28 - CleanupExpired removes all expired items: in whatever state it is
\* called, the cache it leaves holds no entry older than the TTL, and the
\* count it returns is the number of entries that were older than the TTL.
CleanupRemovesAllExpired ==
    /\ \A i \in 1..Len(LRUCleanupExpired(lru, now).cache) :
           ~Expired(LRUCleanupExpired(lru, now).cache[i], now)
    /\ LRUCleanupExpired(lru, now).count = Cardinality({i \in 1..Len(lru) : Expired(lru[i], now)})

\* ---------------------------------------------------------------- the prefix-keyed (core) service
\* core/config.go
MinKeyPrefixLength == 1
MaxKeyPrefixLength == 50
TokenExpiry == 1
RefreshTokenExpiry == 2

ErrInvalidKeyPrefix == "invalid key prefix format"
ErrKeyNotFound == "key not found in JWK set"
ErrJWKSetNotInitialized == "JWK set not initialized"
ErrInvalidTokenPurpose == "invalid token purpose"

\* what a call that does not return leaves in place of its error: LookupKeyID
\* on the nil set of part_011:184
NilPanic == "panic: nil pointer dereference"

\* a key prefix is a sequence of runs of letters, digits, hyphens and underscores
ValidateKeyPrefix(keyPrefix) ==
    IF Len(keyPrefix) < MinKeyPrefixLength \/ Len(keyPrefix) > MaxKeyPrefixLength
    THEN ErrInvalidKeyPrefix
    ELSE NoErr

ValidateTokenPurpose(purpose) ==
    IF purpose # "access" /\ purpose # "refresh" THEN ErrInvalidTokenPurpose ELSE NoErr

ValidateExpiry(expiry) == IF expiry <= 0 THEN "expiry must be positive" ELSE NoErr

\* keyID := fmt.Sprintf("key-%s", keyPrefix)
CoreKeyID(keyPrefix) == <<"key-">> \o keyPrefix

cachedKey(material, keyID, lastUsed) == [material |-> material, keyID |-> keyID, lastUsed |-> lastUsed]

KeyMetadata(keyID, createdAt) == [KeyID |-> keyID, CreatedAt |-> createdAt]

\* part_011:61-109, the prefix being valid: a new set of one key.  serial
\* names the material rsa.GenerateKey makes.
InitializeJwkSet(cm, keyPrefix, t, serial) ==
    [jwkSet |-> [nil |-> FALSE, keys |-> MapPut(EmptyMap, CoreKeyID(keyPrefix), serial)],
     keyCache |-> MapPut(cm.keyCache, keyPrefix, cachedKey(serial, CoreKeyID(keyPrefix), t)),
     keyMetadata |-> MapPut(cm.keyMetadata, keyPrefix, KeyMetadata(CoreKeyID(keyPrefix), t))]

\* part_011:111-167: [cm, err]
AddOrReplaceKeyToSet(cm, keyPrefix, t, serial) ==
    IF ValidateKeyPrefix(keyPrefix) # NoErr THEN [cm |-> cm, err |-> ErrInvalidKeyPrefix]
    ELSE IF cm.jwkSet.nil THEN [cm |-> InitializeJwkSet(cm, keyPrefix, t, serial), err |-> NoErr]
    ELSE [cm |-> [jwkSet |-> [nil |-> FALSE,
                              keys |-> MapPut(cm.jwkSet.keys, CoreKeyID(keyPrefix), serial)],
                  keyCache |-> MapPut(cm.keyCache, keyPrefix, cachedKey(serial, CoreKeyID(keyPrefix), t)),
                  keyMetadata |-> MapPut(cm.keyMetadata, keyPrefix, KeyMetadata(CoreKeyID(keyPrefix), t))],
          err |-> NoErr]

\* part_011:169-204: [cm, err, key]
GetPrivateKeyWithId(cm, keyPrefix, t) ==
    IF ValidateKeyPrefix(keyPrefix) # NoErr
    THEN [cm |-> cm, err |-> ErrInvalidKeyPrefix, key |-> NewKey(<<>>, 0)]
    ELSE IF keyPrefix \in DOMAIN cm.keyCache
    THEN [cm |-> [cm EXCEPT !.keyCache[keyPrefix].lastUsed = t], err |-> NoErr,
          key |-> NewKey(cm.keyCache[keyPrefix].keyID, cm.keyCache[keyPrefix].material)]
    ELSE IF cm.jwkSet.nil
    THEN [cm |-> cm, err |-> NilPanic, key |-> NewKey(<<>>, 0)]
    ELSE IF CoreKeyID(keyPrefix) \notin DOMAIN cm.jwkSet.keys
    THEN [cm |-> cm, err |-> ErrKeyNotFound, key |-> NewKey(<<>>, 0)]
    ELSE [cm |-> [cm EXCEPT !.keyCache = MapPut(@, keyPrefix,
                                cachedKey(cm.jwkSet.keys[CoreKeyID(keyPrefix)], CoreKeyID(keyPrefix), t))],
          err |-> NoErr,
          key |-> NewKey(CoreKeyID(keyPrefix), cm.jwkSet.keys[CoreKeyID(keyPrefix)])]

\* part_011:206-225: [err, key]
CoreGetPublicKeyBy(cm, keyId) ==
    IF cm.jwkSet.nil THEN [err |-> ErrJWKSetNotInitialized, key |-> NewKey(<<>>, 0)]
    ELSE IF keyId \notin DOMAIN cm.jwkSet.keys
    THEN [err |-> "no key found with kid", key |-> NewKey(<<>>, 0)]
    ELSE [err |-> NoErr, key |-> NewKey(keyId, cm.jwkSet.keys[keyId])]

\* core/jwt.go:26-45: iat and exp, then the caller's claims over them
GenerateUnsignedToken(claims, expiry, t) ==
    [x \in (DOMAIN claims) \cup {"iat", "exp"} |->
        IF x \in DOMAIN claims THEN claims[x]
        ELSE IF x = "iat" THEN JNumber(t) ELSE JNumber(t + expiry)]

\* service/auth.go:234-262, the inputs being valid: [cm, err, token]
signWithPrefixKey(cm, claims, keyPrefix, expiry, t) ==
    With(GetPrivateKeyWithId(cm, keyPrefix, t), LAMBDA k :
        IF k.err # NoErr THEN [cm |-> k.cm, err |-> k.err, token |-> NoToken]
        ELSE [cm |-> k.cm, err |-> NoErr,
              token |-> Sign(MapPut(GenerateUnsignedToken(claims, expiry, t), "kid", JString(k.key.kid)),
                             k.key)])

\* service/auth.go:220-263: [cm, err, token]
generateSignedToken(cm, claims, keyPrefix, expiry, rotateKey, t, serial) ==
    IF ValidateKeyPrefix(keyPrefix) # NoErr THEN [cm |-> cm, err |-> ErrInvalidKeyPrefix, token |-> NoToken]
    ELSE IF ValidateExpiry(expiry) # NoErr THEN [cm |-> cm, err |-> ValidateExpiry(expiry), token |-> NoToken]
    ELSE IF rotateKey
    THEN With(AddOrReplaceKeyToSet(cm, keyPrefix, t, serial), LAMBDA r :
             IF r.err # NoErr THEN [cm |-> r.cm, err |-> r.err, token |-> NoToken]
             ELSE signWithPrefixKey(r.cm, claims, keyPrefix, expiry, t))
    ELSE signWithPrefixKey(cm, claims, keyPrefix, expiry, t)

\* service/auth.go:265-279: [cm, err, accessToken, refreshToken]
GenerateAccessRefreshTokenPair(cm, input, refresh, keyPrefix, t, serial) ==
    With(generateSignedToken(cm, input, keyPrefix, TokenExpiry, TRUE, t, serial), LAMBDA a :
        IF a.err # NoErr
        THEN [cm |-> a.cm, err |-> "failed to generate access token",
              accessToken |-> NoToken, refreshToken |-> NoToken]
        ELSE With(generateSignedToken(a.cm, refresh, keyPrefix, RefreshTokenExpiry, FALSE, t, serial),
                  LAMBDA r :
                      IF r.err # NoErr
                      THEN [cm |-> r.cm, err |-> "failed to generate refresh token",
                            accessToken |-> NoToken, refreshToken |-> NoToken]
                      ELSE [cm |-> r.cm, err |-> NoErr,
                            accessToken |-> a.token, refreshToken |-> r.token]))

\* service/auth.go:281-295
GenerateToken(cm, input, keyPrefix, expiry, purpose, t, serial) ==
    IF ValidateTokenPurpose(purpose) # NoErr
    THEN [cm |-> cm, err |-> ErrInvalidTokenPurpose, token |-> NoToken]
    ELSE generateSignedToken(cm, MapPut(input, "purpose", JString(purpose)), keyPrefix, expiry,
                             purpose = "access", t, serial)

\* a renewal that rotates the key of the prefix
GenerateTokenFromRefreshTokenRotating(cm, input, keyPrefix, expiry, t, serial) ==
    generateSignedToken(cm, MapPut(input, "purpose", JString("access")), keyPrefix, expiry, TRUE, t, serial)

\* service/auth.go:297-306
GenerateTokenFromRefreshToken(cm, input, keyPrefix, expiry, t, serial) ==
    generateSignedToken(cm, MapPut(input, "purpose", JString("access")), keyPrefix, expiry, FALSE, t, serial)

\* service/auth.go:373-423: [err, claims]
CoreVerifyTokenSignatureAndGetClaims(cm, token, t) ==
    IF "kid" \notin DOMAIN token.payload
    THEN [err |-> "token missing required 'kid' claim", claims |-> EmptyMap]
    ELSE IF ~IsString(token.payload, "kid")
    THEN [err |-> "'kid' claim must be a string", claims |-> EmptyMap]
    ELSE IF ValueOf(token.payload, "kid") = <<>>
    THEN [err |-> "'kid' claim cannot be empty", claims |-> EmptyMap]
    ELSE With(CoreGetPublicKeyBy(cm, ValueOf(token.payload, "kid")), LAMBDA publicKey :
        IF publicKey.err # NoErr THEN [err |-> publicKey.err, claims |-> EmptyMap]
        ELSE IF token.signedBy # publicKey.key.material
        THEN [err |-> "failed to verify token signature", claims |-> EmptyMap]
        ELSE IF IsNumber(token.payload, "exp") /\ t > ValueOf(token.payload, "exp")
        THEN [err |-> "token has expired", claims |-> EmptyMap]
        ELSE [err |-> NoErr, claims |-> token.payload])

\* purpose, ok := claims["purpose"].(string); if !ok { purpose = "access" }
purposeOf(claims) == IF IsString(claims, "purpose") THEN ValueOf(claims, "purpose") ELSE "access"

\* service/auth.go:309-346: [err, purpose]
ValidateToken(cm, token, expectedPurpose, t) ==
    With(CoreVerifyTokenSignatureAndGetClaims(cm, token, t), LAMBDA v :
        IF v.err # NoErr THEN [err |-> v.err, purpose |-> ""]
        ELSE IF expectedPurpose # "" /\ purposeOf(v.claims) # expectedPurpose
        THEN [err |-> "expected purpose", purpose |-> ""]
        ELSE [err |-> NoErr, purpose |-> purposeOf(v.claims)])

\* service/auth.go:348-350
RevokeTokensForDevice(cm, keyPrefix, t, serial) == AddOrReplaceKeyToSet(cm, keyPrefix, t, serial)

\* --- service/token_service.go
CreateAccessToken(cm, claims, keyPrefix, t, serial) ==
    GenerateToken(cm, MapPut(claims, "purpose", JString("access")), keyPrefix, TokenExpiry, "access", t, serial)

CreateRefreshToken(cm, claims, keyPrefix, t, serial) ==
    GenerateToken(cm, MapPut(claims, "purpose", JString("refresh")), keyPrefix, RefreshTokenExpiry,
                  "refresh", t, serial)

ValidateAccessToken(cm, token, t) == ValidateToken(cm, token, "access", t)

ValidateRefreshToken(cm, token, t) == ValidateToken(cm, token, "refresh", t)

\* lines 44-52: [cm, err, token]
RefreshAccessToken(cm, refreshToken, newClaims, keyPrefix, t, serial) ==
    IF ValidateRefreshToken(cm, refreshToken, t).err # NoErr
    THEN [cm |-> cm, err |-> ValidateRefreshToken(cm, refreshToken, t).err, token |-> NoToken]
    ELSE GenerateTokenFromRefreshToken(cm, newClaims, keyPrefix, TokenExpiry, t, serial)

\* ---------------------------------------------------------------- calls of the core service
MaxKeys == 2
MaxTokens == 3

\* the prefixes a caller passes: two devices, and the empty string
KeyPrefixes == {<<"web">>, <<"android">>, <<>>}

\* the claim maps a caller passes
ClaimMaps == {EmptyMap, MapPut(EmptyMap, "purpose", JString("refresh"))}

Issued(token, as, by) == [token |-> token, as |-> as, by |-> by]

IssuedTokens == {x.token : x \in issued}

\* rsa.GenerateKey has made the key the set now holds under some id
KeysGenerated(cm) == IF cm.jwkSet # core.jwkSet THEN calls + 1 ELSE calls

GenerateAccessRefreshTokenPairCall(input, refresh, keyPrefix) ==
    /\ calls < MaxKeys
    /\ Cardinality(issued) + 2 <= MaxTokens
    /\ \E r \in {GenerateAccessRefreshTokenPair(core, input, refresh, keyPrefix, now, calls + 1)} :
           /\ core' = r.cm
           /\ calls' = KeysGenerated(r.cm)
           /\ issued' = IF r.err # NoErr THEN issued
                        ELSE issued \cup {Issued(r.accessToken, "access", "GenerateAccessRefreshTokenPair"),
                                          Issued(r.refreshToken, "refresh", "GenerateAccessRefreshTokenPair")}
    /\ UNCHANGED <<db, cache, userKeysets, parsedKeys, keyToUser, now, deleted, replaced, procs,
                   lru, recency, lastPut, gone, metrics, evicted, cleaner, storage, gor, mutex>>

CreateAccessTokenCall(claims, keyPrefix) ==
    /\ calls < MaxKeys
    /\ Cardinality(issued) < MaxTokens
    /\ \E r \in {CreateAccessToken(core, claims, keyPrefix, now, calls + 1)} :
           /\ core' = r.cm
           /\ calls' = KeysGenerated(r.cm)
           /\ issued' = IF r.err # NoErr THEN issued
                        ELSE issued \cup {Issued(r.token, "access", "CreateAccessToken")}
    /\ UNCHANGED <<db, cache, userKeysets, parsedKeys, keyToUser, now, deleted, replaced, procs,
                   lru, recency, lastPut, gone, metrics, evicted, cleaner, storage, gor, mutex>>

\* on a manager that has no key yet the call does not return
CreateRefreshTokenCall(claims, keyPrefix) ==
    /\ Cardinality(issued) < MaxTokens
    /\ \E r \in {CreateRefreshToken(core, claims, keyPrefix, now, calls + 1)} :
           /\ core' = r.cm
           /\ issued' = IF r.err # NoErr THEN issued
                        ELSE issued \cup {Issued(r.token, "refresh", "CreateRefreshToken")}
    /\ UNCHANGED <<db, cache, userKeysets, parsedKeys, keyToUser, now, deleted, replaced, procs, calls,
                   lru, recency, lastPut, gone, metrics, evicted, cleaner, storage, gor, mutex>>

RefreshAccessTokenCall(refreshToken, newClaims, keyPrefix) ==
    /\ Cardinality(issued) < MaxTokens
    /\ \E r \in {RefreshAccessToken(core, refreshToken, newClaims, keyPrefix, now, calls + 1)} :
           /\ core' = r.cm
           /\ issued' = IF r.err # NoErr THEN issued
                        ELSE issued \cup {Issued(r.token, "access", "RefreshAccessToken")}
    /\ UNCHANGED <<db, cache, userKeysets, parsedKeys, keyToUser, now, deleted, replaced, procs, calls,
                   lru, recency, lastPut, gone, metrics, evicted, cleaner, storage, gor, mutex>>

\* reads the manager only
ValidateAccessTokenCall(token) ==
    /\ ValidateAccessToken(core, token, now).purpose \in {"", "access"}
    /\ UNCHANGED vars

ValidateRefreshTokenCall(token) ==
    /\ ValidateRefreshToken(core, token, now).purpose \in {"", "refresh"}
    /\ UNCHANGED vars

RevokeTokensForDeviceCall(keyPrefix) ==
    /\ calls < MaxKeys
    /\ \E r \in {RevokeTokensForDevice(core, keyPrefix, now, calls + 1)} :
           /\ core' = r.cm
           /\ calls' = KeysGenerated(r.cm)
    /\ UNCHANGED <<db, cache, userKeysets, parsedKeys, keyToUser, now, deleted, replaced, procs,
                   lru, recency, lastPut, gone, issued, metrics, evicted, cleaner, storage, gor, mutex>>

NextCore ==
    \/ \E input, refresh \in ClaimMaps, p \in KeyPrefixes : GenerateAccessRefreshTokenPairCall(input, refresh, p)
    \/ \E claims \in ClaimMaps, p \in KeyPrefixes : CreateAccessTokenCall(claims, p)
    \/ \E claims \in ClaimMaps, p \in KeyPrefixes : CreateRefreshTokenCall(claims, p)
    \/ \E tok \in IssuedTokens, claims \in ClaimMaps, p \in KeyPrefixes : RefreshAccessTokenCall(tok, claims, p)
    \/ \E tok \in IssuedTokens : ValidateAccessTokenCall(tok)
    \/ \E tok \in IssuedTokens : ValidateRefreshTokenCall(tok)
    \/ \E p \in KeyPrefixes : RevokeTokensForDeviceCall(p)
    \/ Tick

SpecCore == Init /\ [][NextCore]_vars

\* the tokens issued as access tokens that carry the key id of keyPrefix
AccessTokensOf(keyPrefix) ==
    {x.token : x \in {y \in issued : y.as = "access" /\ KidOf(y.token) = CoreKeyID(keyPrefix)}}

\* C29 - renewing an access token invalidates nothing: in whatever state
\* RefreshAccessToken(refreshToken, claims, prefix) succeeds, the manager it
\* leaves still accepts the same refresh token by ValidateRefreshToken, and
\* still accepts by ValidateAccessToken every access token of that prefix
\* that was accepted before the call.
RenewalKeepsTokens ==
    \A tok \in IssuedTokens, claims \in ClaimMaps, p \in KeyPrefixes :
        RefreshAccessToken(core, tok, claims, p, now, calls + 1).err = NoErr
        => /\ ValidateRefreshToken(RefreshAccessToken(core, tok, claims, p, now, calls + 1).cm, tok, now).err = NoErr
           /\ \A a \in AccessTokensOf(p) :
                  ValidateAccessToken(core, a, now).err = NoErr
                  => ValidateAccessToken(RefreshAccessToken(core, tok, claims, p, now, calls + 1).cm, a, now).err
                         = NoErr

\* an access token has been renewed; the refresh token and an access token
\* issued before, for the same prefix, are still accepted
RenewalKeepsTokensWitness ==
    \E x, a, r \in issued :
        /\ x.by = "RefreshAccessToken"
        /\ a.as = "access" /\ a.by # "RefreshAccessToken"
        /\ r.as = "refresh"
        /\ KidOf(a.token) = KidOf(x.token)
        /\ ValidateAccessToken(core, a.token, now).err = NoErr
        /\ ValidateAccessToken(core, x.token, now).err = NoErr
        /\ ValidateRefreshToken(core, r.token, now).err = NoErr

\* C30 - purpose validation keeps refresh tokens from API access:
\* ValidateToken(t, "access") fails for every token t that was issued as the
\* refresh token of GenerateAccessRefreshTokenPair or by CreateRefreshToken.
RefreshTokenNoAccess ==
    \A x \in issued :
        x.as = "refresh" => ValidateToken(core, x.token, "access", now).err # NoErr

\* ---------------------------------------------------------------- DeleteSessionKey when the store fails
\* the key ids of userID's row, when the row holds exactly n keys
RowOf(n, userID) ==
    IF Cardinality(DurableKeyIDs(db, userID)) = n THEN DurableKeyIDs(db, userID) ELSE {}

\* C32 - DeleteSessionKey is all-or-nothing on a persistence failure: when
\* the delete of the emptied row or the save of the reduced keyset fails,
\* the call returns an error and leaves the store, the three cache indices
\* and the plain maps exactly as they were, so the key id resolves as it did
\* before the call.
DeleteAllOrNothing ==
    \A u \in Users, k \in HeldKeyIDs :
        LET r == DeleteSessionKey(M, u, k, now, FALSE, TRUE) IN
            /\ r.err # NoErr
            /\ r.m = M
            /\ ResolveErr(r.m, k, now) = ResolveErr(M, k, now)

\* a user holds two keys, both cached and resolving, and a delete of either
\* fails at the save of the reduced keyset
DeleteAllOrNothingWitness ==
    \E u \in Users :
        /\ RowOf(2, u) # {}
        /\ \A k \in RowOf(2, u) :
               /\ DeleteSessionKey(M, u, k, now, FALSE, TRUE).err = "failed to write keyset"
               /\ LRUHas(cache.parsedKeys, k)
               /\ Resolves(k)

\* ---------------------------------------------------------------- GetPrivateKeyByID past the reverse index
\* GetPrivateKeyByID as a function of the manager it meets.  The managers are
\* those a running service can hold:
\*   - the table has a row for some users, each row a key per device type;
\*   - the reverse index names the owner of some of the stored keys
\*     (capacity 2000 in NewJwkManager), the parsed-key index holds some of
\*     these (capacity 1000: it evicts first);
\*   - the keyset index holds a keyset some goroutine read from the owner's
\*     row: the row as it is, or as it was before another goroutine's
\*     CreateSessionKey saved a further device type into it.  The manager has
\*     no lock, and PutUserKeyset (line 274) is a call of its own, so the
\*     older reading can be the one that is put last.
\* the injective lists over S of at most n elements
ListsOf(S, n) ==
    UNION {{l \in [1..i -> S] : \A x, y \in 1..i : x # y => l[x] # l[y]} :
               i \in 0..(IF Cardinality(S) < n THEN Cardinality(S) ELSE n)}

\* the row of userID holding the keys of the device types ds, made at instant 0
RowWith(userID, ds) ==
    MarshalKeyData([d \in ds |-> MarshalKey(KeyMadeAt(userID, d, 0))])

\* the tables: a row, never an empty one, for some of the users
Tables ==
    UNION {[us -> (SUBSET Devices) \ {{}}] : us \in SUBSET Users}

\* the list l of key ids as an LRU index of value(k), all items put at instant 0
IndexOf(l, value(_)) == [i \in DOMAIN l |-> CacheItem(l[i], value(l[i]), 0)]

\* the elements of list l that are in S, in the order of l
RECURSIVE Restrict(_, _)
Restrict(l, S) ==
    IF l = <<>> THEN <<>>
    ELSE IF Head(l) \in S THEN <<Head(l)>> \o Restrict(Tail(l), S)
    ELSE Restrict(Tail(l), S)

InitLookup ==
    \E tb \in Tables :
        LET table == [u \in DOMAIN tb |-> RowWith(u, tb[u])]
            stored == {KeyIDFormat(d, u, 0) : d \in Devices, u \in Users}
                          \cap {k \in KeyIDs : InStore(table, k)}
        IN  /\ db = table
            /\ \E l \in ListsOf(stored, LookupCapacity), P \in SUBSET stored :
                   /\ Cardinality(P) <= KeyCapacity
                   /\ \E ks \in {<<>>} \cup {<<u, ds>> : u \in DOMAIN tb, ds \in (SUBSET Devices) \ {{}}} :
                          /\ ks # <<>> => ks[2] \subseteq tb[ks[1]]
                          /\ cache = [parsedKeys |-> IndexOf(Restrict(l, P),
                                                             LAMBDA k : NewKey(k, 0)),
                                       keyToUser |-> IndexOf(l, OwnerOf),
                                       userKeysets |->
                                           IF ks = <<>> THEN NewLRUCache
                                           ELSE <<CacheItem(formatUserKeysetKey(ks[1]),
                                                            [UserID |-> ks[1],
                                                             KeyData |-> UnmarshalKeyData(RowWith(ks[1], ks[2]))],
                                                            0)>>]
            /\ userKeysets = [u \in DOMAIN table |->
                                  [UserID |-> u, KeyData |-> UnmarshalKeyData(table[u])]]
            /\ parsedKeys = [k \in stored |-> NewKey(k, 0)]
            /\ keyToUser = [k \in stored |-> OwnerOf(k)]
    /\ now = 0
    /\ deleted = {}
    /\ replaced = {}
    /\ procs = [p \in Procs |-> Idle]
    /\ calls = 0
    /\ lru = NewLRUCache
    /\ recency = <<>>
    /\ lastPut = EmptyMap
    /\ gone = EmptyMap
    /\ core = NewCoreJwkManager
    /\ issued = {}
    /\ metrics = NewCacheMetrics
    /\ evicted = 0
    /\ cleaner = NewCacheManager
    /\ storage = {}
    /\ gor = [g \in Goroutines |-> NoCall]
    /\ mutex = NewRWMutex

NextLookup ==
    \/ \E k \in HeldKeyIDs, lf, ff \in BOOLEAN : GetPrivateKeyByIDCall(k, lf, ff)
    \/ Tick

SpecLookup == InitLookup /\ [][NextLookup]_vars

\* the reverse index names an owner for keyID, the parsed key is not cached,
\* and the owner's keyset, cached or read from its row, does not hold keyID
OwnerKeysetLacks(m, keyID, t) ==
    LET l == getLookup(m, keyID, t)
        f == getFetch(l.m, l.need, l.userID, keyID, t, FALSE, FALSE)
    IN  \/ l.need = "cached" /\ SlotsOfKeyID(l.keyset, keyID) = {}
        \/ /\ l.need = "user"
           /\ GetUserKeyset(m.db, l.userID, FALSE).err = NoErr
           /\ SlotsOfKeyID(f.keyset, keyID) = {}

\* C33 - lookup falls back to the full scan: when the reverse index names an
\* owner whose keyset, cached or freshly loaded, does not contain the key id,
\* GetPrivateKeyByID succeeds if the key id is in the row of any user.
LookupFallsBackToScan ==
    \A k \in KeyIDs :
        (OwnerKeysetLacks(M, k, now) /\ InStore(db, k)) => ResolveErr(M, k, now) = NoErr

\* ---------------------------------------------------------------- CreateSessionKey when the load fails
\* C34 - a failed load is not treated as absence: when GetUserKeyset fails in
\* CreateSessionKey for a user who has a row (store I/O error, unparseable
\* row), the call returns an error and leaves the row as it is, so every key
\* of the user stays in the store.
FailedLoadIsNotAbsence ==
    \A u \in DOMAIN db, d \in Devices :
        LET r == CreateSessionKey(M, u, d, KeyMadeAt(u, d, now), now, TRUE, FALSE) IN
            /\ r.err # NoErr
            /\ r.m.db = db
            /\ \A k \in DurableKeyIDs(db, u) : InStore(r.m.db, k)

\* ---------------------------------------------------------------- the OptimizedKeyCache and its counters
\* lru_cache.go, lines 195-234: a Get on an index records a hit or a miss;
\* the Put and Remove methods (205-207, 221-224, 237-255) touch no counter.
\* Each returns [cache, metrics, hit].
GetParsedKey(c, mt, keyID, t) ==
    LET r == LRUGet(c.parsedKeys, keyID, t) IN
    [cache |-> [c EXCEPT !.parsedKeys = r.cache],
     metrics |-> IF r.hit THEN recordHit(mt) ELSE recordMiss(mt), hit |-> r.hit]

CacheGetUserKeyset(c, mt, userID, t) ==
    LET r == LRUGet(c.userKeysets, formatUserKeysetKey(userID), t) IN
    [cache |-> [c EXCEPT !.userKeysets = r.cache],
     metrics |-> IF r.hit THEN recordHit(mt) ELSE recordMiss(mt), hit |-> r.hit]

GetUserIDByKeyID(c, mt, keyID, t) ==
    LET r == LRUGet(c.keyToUser, keyID, t) IN
    [cache |-> [c EXCEPT !.keyToUser = r.cache],
     metrics |-> IF r.hit THEN recordHit(mt) ELSE recordMiss(mt), hit |-> r.hit]

\* lines 258-268: [cache, metrics, count]
CleanupExpiredCounting(c, mt, t) ==
    LET r == CacheCleanupExpired(c, t) IN
    [cache |-> r.cache, metrics |-> recordExpired(mt, r.count), count |-> r.count]

\* part_005, lines 498-505
GetCacheMetrics(mt) == GetMetrics(mt)

ResetCacheMetrics(mt) == ResetMetrics(mt)

\* the counters stay below this
MaxCount == 2

\* the key ids and the users the calls are made with
MetricKeys == {KeyIDFormat(<<"web">>, u, 0) : u \in Users} \cup {KeyIDFormat(<<"android">>, 1, 0)}

\* the entries of index c that index d no longer holds
Lost(c, d) == Cardinality(KeysIn(c) \ KeysIn(d))

\* the frame of a call on the cache
CacheCallFrame ==
    UNCHANGED <<db, userKeysets, parsedKeys, keyToUser, now, deleted, replaced, procs, calls,
                lru, recency, lastPut, gone, core, issued, cleaner, storage, gor, mutex>>

PutParsedKeyCall(keyID) ==
    /\ evicted < MaxCount
    /\ cache' = PutParsedKey(cache, keyID, NewKey(keyID, 0), now)
    /\ evicted' = evicted + Lost(cache.parsedKeys, cache'.parsedKeys)
    /\ UNCHANGED metrics
    /\ CacheCallFrame

PutUserKeysetCall(userID) ==
    /\ evicted < MaxCount
    /\ cache' = PutUserKeyset(cache, userID, NewUserKeyset(userID), now)
    /\ evicted' = evicted + Lost(cache.userKeysets, cache'.userKeysets)
    /\ UNCHANGED metrics
    /\ CacheCallFrame

PutUserIDByKeyIDCall(keyID) ==
    /\ evicted < MaxCount
    /\ cache' = PutUserIDByKeyID(cache, keyID, OwnerOf(keyID), now)
    /\ evicted' = evicted + Lost(cache.keyToUser, cache'.keyToUser)
    /\ UNCHANGED metrics
    /\ CacheCallFrame

GetParsedKeyCall(keyID) ==
    /\ metrics.hits + metrics.misses < MaxCount
    /\ \E r \in {GetParsedKey(cache, metrics, keyID, now)} :
           cache' = r.cache /\ metrics' = r.metrics
    /\ UNCHANGED evicted
    /\ CacheCallFrame

GetUserKeysetCall(userID) ==
    /\ metrics.hits + metrics.misses < MaxCount
    /\ \E r \in {CacheGetUserKeyset(cache, metrics, userID, now)} :
           cache' = r.cache /\ metrics' = r.metrics
    /\ UNCHANGED evicted
    /\ CacheCallFrame

GetUserIDByKeyIDCall(keyID) ==
    /\ metrics.hits + metrics.misses < MaxCount
    /\ \E r \in {GetUserIDByKeyID(cache, metrics, keyID, now)} :
           cache' = r.cache /\ metrics' = r.metrics
    /\ UNCHANGED evicted
    /\ CacheCallFrame

CleanupExpiredCountingCall ==
    /\ \E r \in {CleanupExpiredCounting(cache, metrics, now)} :
           /\ metrics.expiredCleanups + r.count <= MaxCount
           /\ cache' = r.cache
           /\ metrics' = r.metrics
    /\ UNCHANGED evicted
    /\ CacheCallFrame

\* reads the counters only
GetCacheMetricsCall ==
    /\ GetCacheMetrics(metrics).evictions >= 0
    /\ UNCHANGED vars

ResetCacheMetricsCall ==
    /\ metrics' = ResetCacheMetrics(metrics)
    /\ evicted' = 0
    /\ UNCHANGED cache
    /\ CacheCallFrame

NextMetrics ==
    \/ \E k \in MetricKeys : PutParsedKeyCall(k)
    \/ \E u \in Users : PutUserKeysetCall(u)
    \/ \E k \in MetricKeys : PutUserIDByKeyIDCall(k)
    \/ \E k \in MetricKeys : GetParsedKeyCall(k)
    \/ \E u \in Users : GetUserKeysetCall(u)
    \/ \E k \in MetricKeys : GetUserIDByKeyIDCall(k)
    \/ CleanupExpiredCountingCall
    \/ GetCacheMetricsCall
    \/ ResetCacheMetricsCall
    \/ Tick

SpecMetrics == Init /\ [][NextMetrics]_vars

\* C35 - the evictions counter GetCacheMetrics reports is the number of
\* entries the three indices have evicted for capacity since the last
\* ResetCacheMetrics, and no call other than the reset lowers it.
EvictionsCounted ==
    /\ [](GetCacheMetrics(metrics).evictions = evicted)
    /\ [][~ResetCacheMetricsCall =>
              GetCacheMetrics(metrics').evictions >= GetCacheMetrics(metrics).evictions]_vars

\* ---------------------------------------------------------------- the auth service under a configuration
\* the longest configured duration, in ticks
MaxDuration == 2

\* the configurations: JWT_ACCESS_TOKEN_DURATION set to any duration
Configs == {JWTConfig(a, RefreshTokenDuration) : a \in 1..MaxDuration}

GenerateTokenPairWithConfigCall(cfg, userID, username, keyID, loadFail, findFail) ==
    /\ \E r \in {GenerateTokenPairWithConfig(cfg, M, User(userID, username), keyID, now,
                                              loadFail, findFail)} :
           Becomes(r.m)
    /\ UNCHANGED <<now, deleted, replaced, procs, calls, lru, recency, lastPut, gone, core, issued,
                   metrics, evicted, cleaner, storage, gor, mutex>>

\* services of every configuration over one manager
NextConfig ==
    \/ \E u \in Users, d \in DeviceTypes, lf, sf \in BOOLEAN : CreateSessionKeyCall(u, d, lf, sf)
    \/ \E u \in Users, k \in AuthHeldKeyIDs, f \in StoreOutcomes :
           Running /\ DeleteSessionKeyCall(u, k, f[1], f[2])
    \/ Tick
    \/ \E cfg \in Configs, u \in Users, n \in Usernames, k \in AuthHeldKeyIDs, lf, ff \in BOOLEAN :
           Running /\ GenerateTokenPairWithConfigCall(cfg, u, n, k, lf, ff)
    \/ \E tok \in Tokens, lf, ff \in BOOLEAN : Running /\ VerifyTokenCall(tok, lf, ff)

SpecConfig == Init /\ [][NextConfig]_vars

\* C36 - ExpiresIn of the TokenPair GenerateTokenPairWithKeyID returns is
\* the access token's exp claim minus its iat claim, for every configured
\* access-token duration.
ExpiresInMatchesToken ==
    \A cfg \in Configs, k \in KnownKeyIDs, n \in Usernames :
        \A r \in {GenerateTokenPairWithConfig(cfg, M, User(OwnerOf(k), n), k, now, FALSE, FALSE)} :
            r.err = NoErr =>
                r.ExpiresIn = ValueOf(r.AccessToken.payload, "exp")
                                  - ValueOf(r.AccessToken.payload, "iat")

\* ---------------------------------------------------------------- CacheManager
\* lru_cache.go, lines 335-337: go cm.cleanupRoutine(); the goroutine makes
\* its ticker and comes to the select
Start(c) == [c EXCEPT !.pc = "select"]

\* lines 340-342: cm.cancel()
Stop(c) == [c EXCEPT !.ctx = "cancelled"]

\* lines 350-355: the cases of the select that can proceed
readyCases(c) ==
    (IF c.ctx = "cancelled" THEN {"done"} ELSE {}) \cup (IF c.tick THEN {"tick"} ELSE {})

\* a routine that takes the cancellation for a tick
cleanupRoutineDeaf(c, case) ==
    IF case = "done" THEN [c EXCEPT !.pc = "cleanup"]
    ELSE [c EXCEPT !.pc = "cleanup", !.tick = FALSE]

\* lines 349-356: one turn of the loop, the select taking case
cleanupRoutine(c, case) ==
    IF case = "done" THEN [c EXCEPT !.pc = "returned", !.tick = FALSE]
    ELSE [c EXCEPT !.pc = "cleanup", !.tick = FALSE]

\* lines 360-378: [cache, metrics], the log lines left out
performCleanup(c, mt, t) ==
    LET r == CleanupExpiredCounting(c, mt, t) IN
    [cache |-> r.cache, metrics |-> GetCacheMetrics(r.metrics)]

CleanerFrame ==
    UNCHANGED <<db, userKeysets, parsedKeys, keyToUser, now, deleted, replaced, procs, calls,
                lru, recency, lastPut, gone, core, issued, evicted, storage, gor, mutex>>

StartCall ==
    /\ cleaner.pc = "none"
    /\ cleaner' = Start(cleaner)
    /\ UNCHANGED <<cache, metrics>>
    /\ CleanerFrame

StopCall ==
    /\ cleaner' = Stop(cleaner)
    /\ UNCHANGED <<cache, metrics>>
    /\ CleanerFrame

\* the ticker puts a tick into its channel, which holds one
TickerFires ==
    /\ cleaner.pc \in {"select", "cleanup"}
    /\ ~cleaner.tick
    /\ cleaner' = [cleaner EXCEPT !.tick = TRUE]
    /\ UNCHANGED <<cache, metrics>>
    /\ CleanerFrame

\* the select takes one of the cases that can proceed
Select(case) ==
    /\ cleaner.pc = "select"
    /\ case \in readyCases(cleaner)
    /\ cleaner' = cleanupRoutine(cleaner, case)
    /\ UNCHANGED <<cache, metrics>>
    /\ CleanerFrame

PerformCleanup ==
    /\ cleaner.pc = "cleanup"
    /\ \E r \in {performCleanup(cache, metrics, now)} :
           /\ r.metrics.expiredCleanups <= MaxCount
           /\ cache' = r.cache
           /\ metrics' = r.metrics
    /\ cleaner' = [cleaner EXCEPT !.pc = "select"]
    /\ CleanerFrame

NextCleaner ==
    \/ StartCall
    \/ StopCall
    \/ TickerFires
    \/ Select("done")
    \/ Select("tick")
    \/ PerformCleanup
    \/ \E k \in MetricKeys : PutParsedKeyCall(k)
    \/ Tick

\* The goroutine is scheduled again and again, and a select with several
\* cases that can proceed takes each of them sooner or later (it chooses at
\* random).
SpecCleaner ==
    /\ Init
    /\ [][NextCleaner]_vars
    /\ SF_vars(Select("done"))
    /\ WF_vars(PerformCleanup)

\* C38 - Stop stops the cleanup routine: once Stop has been called on a
\* started CacheManager the cleanup goroutine eventually returns, and a
\* goroutine that has taken the cancellation starts no cleanup any more.
StopStopsCleanup ==
    /\ (cleaner.ctx = "cancelled" /\ cleaner.pc # "none") ~> (cleaner.pc = "returned")
    /\ [][cleaner.pc = "returned" => (cleaner'.pc = "returned" /\ ~PerformCleanup)]_vars

\* the routine has cleaned expired entries away and then returned on Stop
StopStopsCleanupWitness ==
    /\ cleaner.ctx = "cancelled"
    /\ cleaner.pc = "returned"
    /\ metrics.expiredCleanups > 0

\* ---------------------------------------------------------------- the JWK set put away and brought back
\* A JSON text as the manager writes and reads it: the text of a key set
\* with one object for each key (its kid and its private parts d), the text
\* null, or a text that is no JSON.
JSONText(text, keys) == [text |-> text, keys |-> keys]

Garbage == JSONText("garbage", {})

\* part_011:227-233, json.Marshal(j.jwkSet): [err, json]
GetJwkSetForStorage(cm) ==
    [err |-> NoErr,
     json |-> IF cm.jwkSet.nil THEN JSONText("null", {})
              ELSE JSONText("keys", {[kid |-> k, d |-> cm.jwkSet.keys[k]] : k \in DOMAIN cm.jwkSet.keys})]

\* part_011:235-242: [cm, err].  The set replaces j.jwkSet; j.keyCache and
\* j.keyMetadata are not touched.  What jwk.ParseString makes of the text
\* null is the library's affair: with lenient it is a set of no key,
\* without it an error.
GetJwkSetFromStorage(cm, jwkSetJSON, lenient) ==
    IF jwkSetJSON.text = "garbage" \/ (jwkSetJSON.text = "null" /\ ~lenient)
    THEN [cm |-> cm, err |-> "failed to unmarshal JWK set"]
    ELSE [cm |-> [cm EXCEPT !.jwkSet =
                     [nil |-> FALSE,
                      keys |-> [k \in {x.kid : x \in jwkSetJSON.keys} |->
                                   (CHOOSE x \in jwkSetJSON.keys : x.kid = k).d]]],
          err |-> NoErr]

\* service/auth.go:354-360
MarshalJwkSet(cm) == GetJwkSetForStorage(cm)

\* service/auth.go:364-370
ParseJsonBytes(cm, jwkSetJSON, lenient) == GetJwkSetFromStorage(cm, jwkSetJSON, lenient)

StorageFrame ==
    UNCHANGED <<db, cache, userKeysets, parsedKeys, keyToUser, now, deleted, replaced, procs, calls,
                lru, recency, lastPut, gone, issued, metrics, evicted, cleaner, gor, mutex>>

\* the application puts the text away
MarshalJwkSetCall ==
    /\ \E r \in {MarshalJwkSet(core)} :
           /\ r.err = NoErr
           /\ storage' = storage \cup {r.json}
    /\ UNCHANGED core
    /\ StorageFrame

\* the application hands in a text it has put away, or one that is no JSON
ParseJsonBytesCall(jwkSetJSON, lenient) ==
    /\ jwkSetJSON \in storage \cup {Garbage}
    /\ core' = ParseJsonBytes(core, jwkSetJSON, lenient).cm
    /\ UNCHANGED storage
    /\ StorageFrame

NextStorage ==
    \/ \E p \in KeyPrefixes : RevokeTokensForDeviceCall(p)
    \/ \E claims \in ClaimMaps, p \in KeyPrefixes : CreateAccessTokenCall(claims, p)
    \/ \E tok \in IssuedTokens : ValidateAccessTokenCall(tok)
    \/ MarshalJwkSetCall
    \/ \E x \in storage \cup {Garbage}, lenient \in BOOLEAN : ParseJsonBytesCall(x, lenient)
    \/ Tick

SpecStorage == Init /\ [][NextStorage]_vars

\* C37 - the signing key matches the published key: for every prefix p the
\* private key GetPrivateKeyWithId(p) returns is the key the JWK set holds
\* under key-p, and a token signed with it verifies through GetPublicKeyBy,
\* also after GetJwkSetFromStorage has replaced the set.
SigningKeyIsPublished ==
    \A p \in KeyPrefixes :
        LET r == GetPrivateKeyWithId(core, p, now) IN
            r.err = NoErr
            => /\ CoreGetPublicKeyBy(r.cm, CoreKeyID(p)).err = NoErr
               /\ CoreGetPublicKeyBy(r.cm, CoreKeyID(p)).key.material = r.key.material
               /\ \A claims \in ClaimMaps :
                      LET s == signWithPrefixKey(core, claims, p, TokenExpiry, now) IN
                          CoreVerifyTokenSignatureAndGetClaims(s.cm, s.token, now).err = NoErr

\* ---------------------------------------------------------------- goroutines in the core manager
\* Each goroutine is in one call of the jwkManager and moves through it from
\* one lock operation to the next; what a call does between two lock
\* operations is one step.
\*   AddOrReplaceKeyToSet (part_011:111-167)
\*     "lock"       j.mutex.Lock(), line 116
\*     "locked"     lines 119-166 with the lock; on a nil set Unlock, line 120
\*     "init"       InitializeJwkSet: j.mutex.Lock(), line 66
\*     "initLocked" lines 69-108, then the deferred Unlock
\*     "relock"     j.mutex.Lock(), line 122
\*     "relocked"   return err, the deferred Unlock
\*   GetPrivateKeyWithId (169-204)
\*     "rlock"      j.mutex.RLock(), line 174
\*     "rlocked"    lines 177-203, then the deferred RUnlock
\*   GetJwkSetFromStorage (235-242)
\*     "parsed"     the text is parsed; j.jwkSet = set is next, line 240
CallOf(op, keyPrefix, pc, err, onNil, arg) ==
    [op |-> op, keyPrefix |-> keyPrefix, pc |-> pc, err |-> err, onNil |-> onNil, arg |-> arg]

Lock(mu, g) == [mu EXCEPT !.w = g]
Unlock(mu) == [mu EXCEPT !.w = 0]
RLock(mu, g) == [mu EXCEPT !.r = @ \cup {g}]
RUnlock(mu, g) == [mu EXCEPT !.r = @ \ {g}]
CanLock(mu) == mu.w = 0 /\ mu.r = {}
CanRLock(mu) == mu.w = 0

\* the texts a caller hands to GetJwkSetFromStorage: a set with a key for
\* web made elsewhere, a set of no key, and a text that is no JSON
CoreTexts ==
    {JSONText("keys", {[kid |-> CoreKeyID(<<"web">>), d |-> 0]}), JSONText("keys", {}), Garbage}

\* the fields of the manager the next step of g writes
Writes(g) ==
    LET c == gor[g] IN
    IF c.op = "AddOrReplaceKeyToSet" /\ c.pc = "locked" /\ ~core.jwkSet.nil
    THEN {"jwkSet", "keyCache", "keyMetadata"}
    ELSE IF c.op = "AddOrReplaceKeyToSet" /\ c.pc = "initLocked"
    THEN {"jwkSet", "keyCache", "keyMetadata"}
    ELSE IF c.op = "GetPrivateKeyWithId" /\ c.pc = "rlocked"
    THEN (IF c.keyPrefix \in DOMAIN core.keyCache THEN {"lastUsed"}
          ELSE IF ~core.jwkSet.nil /\ CoreKeyID(c.keyPrefix) \in DOMAIN core.jwkSet.keys
          THEN {"keyCache"} ELSE {})
    ELSE IF c.op = "GetJwkSetFromStorage" /\ c.pc = "parsed"
    THEN {"jwkSet"}
    ELSE {}

\* the fields of the manager the next step of g reads
Reads(g) ==
    LET c == gor[g] IN
    IF c.op = "AddOrReplaceKeyToSet" /\ c.pc = "locked" THEN {"jwkSet"}
    ELSE IF c.op = "GetPrivateKeyWithId" /\ c.pc = "rlocked"
    THEN (IF c.keyPrefix \in DOMAIN core.keyCache THEN {"keyCache"} ELSE {"keyCache", "jwkSet"})
    ELSE {}

\* g and h are at the same time in steps that touch one field, and one of
\* them writes it
RacingOn(g, h) == (Writes(g) \cap (Writes(h) \cup Reads(h))) \cup (Writes(h) \cap Reads(g))

RaceFrame ==
    UNCHANGED <<db, cache, userKeysets, parsedKeys, keyToUser, now, deleted, replaced, procs,
                lru, recency, lastPut, gone, issued, metrics, evicted, cleaner, storage>>

\* the keys rsa.GenerateKey is still to make for the calls that are under way
Pending ==
    Cardinality({g \in Goroutines : gor[g].op = "AddOrReplaceKeyToSet"
                                      /\ gor[g].pc \in {"lock", "locked", "init", "initLocked"}})

\* g calls AddOrReplaceKeyToSet(keyPrefix): lines 112-114
AddOrReplaceBegin(g, keyPrefix) ==
    /\ gor[g].pc = "idle"
    /\ calls + Pending < MaxKeys
    /\ gor' = [gor EXCEPT ![g] =
                  IF ValidateKeyPrefix(keyPrefix) # NoErr
                  THEN CallOf("AddOrReplaceKeyToSet", keyPrefix, "done", ErrInvalidKeyPrefix, core.jwkSet.nil, <<>>)
                  ELSE CallOf("AddOrReplaceKeyToSet", keyPrefix, "lock", "", core.jwkSet.nil, <<>>)]
    /\ UNCHANGED <<core, calls, mutex>>
    /\ RaceFrame

\* j.mutex.Lock() at lines 116, 66 and 122
AddOrReplaceLock(g) ==
    /\ gor[g].op = "AddOrReplaceKeyToSet"
    /\ gor[g].pc \in {"lock", "init", "relock"}
    /\ CanLock(mutex)
    /\ mutex' = Lock(mutex, g)
    /\ gor' = [gor EXCEPT ![g].pc = IF @ = "lock" THEN "locked"
                                     ELSE IF @ = "init" THEN "initLocked" ELSE "relocked"]
    /\ UNCHANGED <<core, calls>>
    /\ RaceFrame

\* lines 119-166 with the lock held
AddOrReplaceLocked(g) ==
    /\ gor[g].op = "AddOrReplaceKeyToSet"
    /\ gor[g].pc = "locked"
    /\ mutex' = Unlock(mutex)
    /\ IF core.jwkSet.nil
       THEN /\ gor' = [gor EXCEPT ![g].pc = "init"]
            /\ UNCHANGED <<core, calls>>
       ELSE /\ \E r \in {AddOrReplaceKeyToSet(core, gor[g].keyPrefix, now, calls + 1)} :
                   /\ core' = r.cm
                   /\ gor' = [gor EXCEPT ![g].pc = "done", ![g].err = r.err]
            /\ calls' = calls + 1
    /\ RaceFrame

\* InitializeJwkSet, lines 69-108 with the lock held
InitializeLocked(g) ==
    /\ gor[g].op = "AddOrReplaceKeyToSet"
    /\ gor[g].pc = "initLocked"
    /\ mutex' = Unlock(mutex)
    /\ core' = InitializeJwkSet(core, gor[g].keyPrefix, now, calls + 1)
    /\ calls' = calls + 1
    /\ gor' = [gor EXCEPT ![g].pc = "relock"]
    /\ RaceFrame

\* line 123: return err, and the deferred Unlock
AddOrReplaceReturn(g) ==
    /\ gor[g].op = "AddOrReplaceKeyToSet"
    /\ gor[g].pc = "relocked"
    /\ mutex' = Unlock(mutex)
    /\ gor' = [gor EXCEPT ![g].pc = "done", ![g].err = NoErr]
    /\ UNCHANGED <<core, calls>>
    /\ RaceFrame

\* g calls GetPrivateKeyWithId(keyPrefix): lines 170-172
GetPrivateKeyBegin(g, keyPrefix) ==
    /\ gor[g].pc = "idle"
    /\ gor' = [gor EXCEPT ![g] =
                  IF ValidateKeyPrefix(keyPrefix) # NoErr
                  THEN CallOf("GetPrivateKeyWithId", keyPrefix, "done", ErrInvalidKeyPrefix, core.jwkSet.nil, <<>>)
                  ELSE CallOf("GetPrivateKeyWithId", keyPrefix, "rlock", "", core.jwkSet.nil, <<>>)]
    /\ UNCHANGED <<core, calls, mutex>>
    /\ RaceFrame

\* line 174
GetPrivateKeyRLock(g) ==
    /\ gor[g].op = "GetPrivateKeyWithId"
    /\ gor[g].pc = "rlock"
    /\ CanRLock(mutex)
    /\ mutex' = RLock(mutex, g)
    /\ gor' = [gor EXCEPT ![g].pc = "rlocked"]
    /\ UNCHANGED <<core, calls>>
    /\ RaceFrame

\* what a write of lastUsed can leave there: the instant of the call, and,
\* when another goroutine writes or reads the field at the same time, a
\* value put together from both
TornInstants(g) ==
    IF \E h \in Goroutines \ {g} : "lastUsed" \in RacingOn(g, h) /\ gor[h].keyPrefix = gor[g].keyPrefix
    THEN 0..MaxTime ELSE {now}

\* what the call can end with: its own result, and, when another goroutine
\* is in the map at the same time, the fatal error of the runtime
\* (concurrent map writes, concurrent map read and map write)
Outcomes(g, err) ==
    IF \E h \in Goroutines \ {g} : "keyCache" \in RacingOn(g, h)
    THEN {err, "fatal error: concurrent map access"} ELSE {err}

\* lines 177-203 with the read lock held, then the deferred RUnlock
GetPrivateKeyRLocked(g) ==
    /\ gor[g].op = "GetPrivateKeyWithId"
    /\ gor[g].pc = "rlocked"
    /\ mutex' = RUnlock(mutex, g)
    /\ \E t \in TornInstants(g) :
         \E r \in {GetPrivateKeyWithId(core, gor[g].keyPrefix, t)} :
           \E e \in Outcomes(g, r.err) :
               /\ core' = r.cm
               /\ gor' = [gor EXCEPT ![g].pc = "done", ![g].err = e]
    /\ UNCHANGED calls
    /\ RaceFrame

\* g calls GetJwkSetFromStorage(jwkSetJSON): lines 236-239, no lock
GetJwkSetFromStorageBegin(g, jwkSetJSON) ==
    /\ gor[g].pc = "idle"
    /\ gor' = [gor EXCEPT ![g] =
                  IF GetJwkSetFromStorage(core, jwkSetJSON, FALSE).err # NoErr
                  THEN CallOf("GetJwkSetFromStorage", <<>>, "done",
                              GetJwkSetFromStorage(core, jwkSetJSON, FALSE).err, core.jwkSet.nil, jwkSetJSON)
                  ELSE CallOf("GetJwkSetFromStorage", <<>>, "parsed", "", core.jwkSet.nil, jwkSetJSON)]
    /\ UNCHANGED <<core, calls, mutex>>
    /\ RaceFrame

\* line 240: j.jwkSet = set, no lock
GetJwkSetFromStorageAssign(g) ==
    /\ gor[g].op = "GetJwkSetFromStorage"
    /\ gor[g].pc = "parsed"
    /\ core' = GetJwkSetFromStorage(core, gor[g].arg, FALSE).cm
    /\ gor' = [gor EXCEPT ![g].pc = "done", ![g].err = NoErr]
    /\ UNCHANGED <<calls, mutex>>
    /\ RaceFrame

\* the caller has its result and is free for another call
CallEnd(g) ==
    /\ gor[g].pc = "done"
    /\ gor' = [gor EXCEPT ![g] = NoCall]
    /\ UNCHANGED <<core, calls, mutex>>
    /\ RaceFrame

\* the prefixes of the concurrent calls
RacePrefixes == {<<"web">>, <<"android">>, <<>>}

NextRace ==
    \E g \in Goroutines :
        \/ \E p \in RacePrefixes : AddOrReplaceBegin(g, p)
        \/ AddOrReplaceLock(g)
        \/ AddOrReplaceLocked(g)
        \/ InitializeLocked(g)
        \/ AddOrReplaceReturn(g)
        \/ \E p \in RacePrefixes : GetPrivateKeyBegin(g, p)
        \/ GetPrivateKeyRLock(g)
        \/ GetPrivateKeyRLocked(g)
        \/ \E x \in CoreTexts : GetJwkSetFromStorageBegin(g, x)
        \/ GetJwkSetFromStorageAssign(g)
        \/ CallEnd(g)

SpecRace == Init /\ [][NextRace]_vars

\* C31 - keys of different device prefixes are isolated: when
\* AddOrReplaceKeyToSet(p1) and AddOrReplaceKeyToSet(p2), p1 # p2, have run
\* at the same time on a manager whose set was not initialised and both
\* have returned nil, the set holds both key-p1 and key-p2.
PrefixKeysIsolated ==
    \A g, h \in Goroutines :
        (/\ g # h
         /\ gor[g].op = "AddOrReplaceKeyToSet" /\ gor[h].op = "AddOrReplaceKeyToSet"
         /\ gor[g].pc = "done" /\ gor[h].pc = "done"
         /\ gor[g].err = NoErr /\ gor[h].err = NoErr
         /\ gor[g].onNil /\ gor[h].onNil
         /\ gor[g].keyPrefix # gor[h].keyPrefix)
        => /\ ~core.jwkSet.nil
           /\ CoreKeyID(gor[g].keyPrefix) \in DOMAIN core.jwkSet.keys
           /\ CoreKeyID(gor[h].keyPrefix) \in DOMAIN core.jwkSet.keys

\* C39 - no two goroutines are at the same time in the keyCache map or in a
\* cached key's lastUsed field when one of them writes: every write to
\* them, and every replacement of the JWK set, happens while the goroutine
\* holds the exclusive lock.
WritesHoldTheLock ==
    /\ \A g \in Goroutines : Writes(g) # {} => mutex.w = g
    /\ \A g, h \in Goroutines : g # h => RacingOn(g, h) \cap {"keyCache", "lastUsed"} = {}

====
